---- MODULE Spec2Model ----
(***************************************************************************)
(* Session windowing engine of ccstat (identifySessionBlocks, createBlock, *)
(* createGapBlock, floorToHour), modelled as the loop the code runs over   *)
(* the timestamp-sorted copy of its input.                                 *)
(*                                                                         *)
(* Time is counted in ticks; one UTC hour is HourMs ticks, so a timestamp  *)
(* t has "minute offset" t % HourMs inside its hour.                       *)
(***************************************************************************)
EXTENDS Integers, Sequences, FiniteSets, TLC

\* ---- bounds of the model -------------------------------------------------
MaxEntries == 3
MaxTime == 5
MaxNow == 7
HourMs == 2
MaxWindowHours == 2
MaxCalls == 2
MaxElapse == 2

\* `undefined` / `null` of the source (actualEndTime of a gap block, the
\* not-yet-opened currentBlockStart).  An absent model label is "".
Undefined == -1

\* The radix of parseInt(data, 10); toString() writes decimal digits.
Radix == 10

VARIABLES
  entries,              \* the caller's array handed to identifySessionBlocks
  entries0,             \* history: that array as the caller built it
  sessionDurationHours, \* second parameter of identifySessionBlocks
  clock,                \* what `new Date()` returns
  pc,                   \* "idle" | "loop" | "returned"
  sortedEntries,        \* const sortedEntries
  now,                  \* const now
  idx,                  \* position of the for-of loop in sortedEntries
  currentBlockStart,    \* let currentBlockStart: Date | null
  currentBlockEntries,  \* let currentBlockEntries
  blocks,               \* const blocks
  results,              \* history: <<now, returned blocks>> of finished calls
  projected,            \* burn rate and projection computed for one block
  logFiles,             \* the .jsonl files found under the projects directories
  fileIdx,              \* number of files getContextSessionData has scanned
  sessions,             \* const sessions: ContextSession[]
  currentPath,          \* argument of findContextSessionByPath
  contextSession,       \* what findContextSessionByPath returned
  ctxPc,                \* "idle" | "scanning" | "scanned" | "resolved"
  jsonlLines,           \* the lines loadUsageEntries reads, in reading order
  lineIdx,              \* number of lines read
  processedHashes,      \* const processedHashes = new Set<string>()
  loaded,               \* const entries: the lines kept, by position
  display,              \* the display fields main has formatted, NoDisplay before
  copies,               \* what the other two copies of the engine returned, NoCopies before
  loopPc,               \* position of main inside its refresh loop
  pendingLoads,         \* promises of the cycle's Promise.all not yet settled
  blockTotalTokens,     \* total of the cycle's active block, Undefined if none
  high_water_mark,      \* let high_water_mark
  hwmFile,              \* <<text>> of the high-water-mark file, <<>> if it cannot be read
  observedMax,          \* config.OBSERVED_MAX_TOKEN
  configFile,           \* OBSERVED_MAX_TOKEN in ccstat.json on disk
  failedStep,           \* the step of the current cycle that failed, "" if none
  lastLog,              \* what was last written by console.log / console.warn
  loadOrder,            \* the cycle's loads that have fulfilled, in that order
  largestBlockTotal,    \* largest total of any block of the cycle, Undefined if none
  writtenMark,          \* history: the value main last wrote to the high-water-mark file
  TOKEN_LIMIT,          \* config.TOKEN_LIMIT, as ccstat.json gives it
  USE_OBSERVED_IF_HIGHER, \* config.USE_OBSERVED_IF_HIGHER, as ccstat.json gives it
  EFFECTIVE_TOKEN_LIMIT \* const EFFECTIVE_TOKEN_LIMIT of the cycle, Undefined before it is computed

\* Variables of the windowing engine.
engineVars == <<entries, entries0, sessionDurationHours, clock, pc,
                sortedEntries, now, idx, currentBlockStart,
                currentBlockEntries, blocks, results>>

\* Variables of the burn-rate and projection calculator.
projVars == <<projected, display, copies>>

\* Variables of the context reader and resolver.
ctxVars == <<logFiles, fileIdx, sessions, currentPath, contextSession, ctxPc>>

\* Variables of the usage loader.
loaderVars == <<jsonlLines, lineIdx, processedHashes, loaded>>

\* Variables of the refresh loop.
loopVars == <<loopPc, pendingLoads, blockTotalTokens, high_water_mark, hwmFile,
              observedMax, configFile, failedStep, lastLog, loadOrder,
              largestBlockTotal,
              writtenMark,
              TOKEN_LIMIT,
              USE_OBSERVED_IF_HIGHER,
              EFFECTIVE_TOKEN_LIMIT>>

\* Everything outside the windowing engine.
otherVars == <<projVars, ctxVars, loaderVars, loopVars>>

\* Everything outside the context reader, the loader, the loop.
outsideCtx == <<engineVars, projVars, loaderVars, loopVars>>
outsideLoader == <<engineVars, projVars, ctxVars, loopVars>>
outsideLoop == <<engineVars, projVars, ctxVars, loaderVars>>

vars == <<engineVars, otherVars>>

\* ---- usage records -------------------------------------------------------
Models == <<"opus", "", "sonnet", "opus">>

\* A LoadedUsageEntry.  The record at position k of the caller's array
\* carries id k; its token counts, cost and model label are fixed per id
\* (the loader stores costUSD ?? 0 and model ?? null).
LoadedUsageEntry(k, t) ==
  [id |-> k,
   timestamp |-> t,
   inputTokens |-> k,
   outputTokens |-> 2 * k,
   cacheCreationTokens |-> k % 2,
   cacheReadTokens |-> 3,
   costUSD |-> IF k % 2 = 0 THEN 0 ELSE k,
   model |-> Models[((k - 1) % Len(Models)) + 1]]

EntryArrays ==
  UNION {{[k \in 1..n |-> LoadedUsageEntry(k, ts[k])] : ts \in [1..n -> 0..MaxTime]}
         : n \in 0..MaxEntries}

\* ---- helpers of the engine -------------------------------------------------
\* Fault variant: the timestamp is not floored.
floorToHourIdentity(timestamp) == timestamp
\* new Date(timestamp) with setUTCMinutes(0, 0, 0)
floorToHour(timestamp) == timestamp - (timestamp % HourMs)

\* Array.prototype.sort with (a, b) => a.timestamp - b.timestamp: a stable
\* sort, so records with equal timestamps keep their input order.
RECURSIVE InsertSorted(_, _)
InsertSorted(e, s) ==
  IF s = <<>> THEN <<e>>
  ELSE IF s[Len(s)].timestamp <= e.timestamp THEN Append(s, e)
  ELSE Append(InsertSorted(e, SubSeq(s, 1, Len(s) - 1)), s[Len(s)])

RECURSIVE SortByTimestamp(_)
SortByTimestamp(arr) ==
  IF arr = <<>> THEN <<>>
  ELSE InsertSorted(arr[Len(arr)], SortByTimestamp(SubSeq(arr, 1, Len(arr) - 1)))

\* What the caller's array holds after `[...entries].sort(...)`: the sort
\* works on a spread copy, so the array is left as it was.
\* Fault variant: `entries.sort(...)` without the copy.
ArrayAfterSortInPlace(arr) == SortByTimestamp(arr)
ArrayAfterSort(arr) == arr

\* entry.costUSD ?? 0
NullishZero(x) == IF x = Undefined THEN 0 ELSE x

\* uniq(models): first occurrences, in insertion order.
RECURSIVE uniq(_)
uniq(s) ==
  IF s = <<>> THEN <<>>
  ELSE LET init == uniq(SubSeq(s, 1, Len(s) - 1))
       IN IF \E j \in 1..Len(init) : init[j] = s[Len(s)]
            THEN init ELSE Append(init, s[Len(s)])

\* Fault variant: cacheReadInputTokens accumulates cacheCreationTokens.
RECURSIVE AggregateWrongField(_)
AggregateWrongField(es) ==
  IF es = <<>>
    THEN [tokenCounts |-> [inputTokens |-> 0, outputTokens |-> 0,
                           cacheCreationInputTokens |-> 0,
                           cacheReadInputTokens |-> 0],
          costUSD |-> 0, models |-> <<>>]
    ELSE LET acc == AggregateWrongField(SubSeq(es, 1, Len(es) - 1))
             entry == es[Len(es)]
         IN [tokenCounts |->
               [inputTokens |-> acc.tokenCounts.inputTokens + entry.inputTokens,
                outputTokens |-> acc.tokenCounts.outputTokens + entry.outputTokens,
                cacheCreationInputTokens |->
                  acc.tokenCounts.cacheCreationInputTokens + entry.cacheCreationTokens,
                cacheReadInputTokens |->
                  acc.tokenCounts.cacheReadInputTokens + entry.cacheCreationTokens],
             costUSD |-> acc.costUSD + NullishZero(entry.costUSD),
             models |-> IF entry.model # "" THEN Append(acc.models, entry.model)
                        ELSE acc.models]

\* The aggregation loop of createBlock over the block's entries.
RECURSIVE Aggregate(_)
Aggregate(es) ==
  IF es = <<>>
    THEN [tokenCounts |-> [inputTokens |-> 0, outputTokens |-> 0,
                           cacheCreationInputTokens |-> 0,
                           cacheReadInputTokens |-> 0],
          costUSD |-> 0, models |-> <<>>]
    ELSE LET acc == Aggregate(SubSeq(es, 1, Len(es) - 1))
             entry == es[Len(es)]
         IN [tokenCounts |->
               [inputTokens |-> acc.tokenCounts.inputTokens + entry.inputTokens,
                outputTokens |-> acc.tokenCounts.outputTokens + entry.outputTokens,
                cacheCreationInputTokens |->
                  acc.tokenCounts.cacheCreationInputTokens + entry.cacheCreationTokens,
                cacheReadInputTokens |->
                  acc.tokenCounts.cacheReadInputTokens + entry.cacheReadTokens],
             costUSD |-> acc.costUSD + NullishZero(entry.costUSD),
             models |-> IF entry.model # "" THEN Append(acc.models, entry.model)
                        ELSE acc.models]

\* startTime.toISOString(), prefixed `gap-` for a gap block.
BlockId(prefix, t) == [prefix |-> prefix, iso |-> t]

\* Fault variant: the `now < endTime` conjunct is missing.
IsActiveNoEndCheck(nowT, actualEndTime, endTime, sessionDurationMs) ==
  nowT - actualEndTime < sessionDurationMs
\* const isActive = now - actualEndTime < sessionDurationMs && now < endTime
IsActive(nowT, actualEndTime, endTime, sessionDurationMs) ==
  nowT - actualEndTime < sessionDurationMs /\ nowT < endTime

\* Fault variant: the window is measured from the last entry.
EndTimeFromLastEntry(startTime, es, sessionDurationMs) ==
  es[Len(es)].timestamp + sessionDurationMs
\* const endTime = new Date(startTime.getTime() + sessionDurationMs)
EndTimeOf(startTime, es, sessionDurationMs) == startTime + sessionDurationMs

createBlock(startTime, es, nowT, sessionDurationMs) ==
  LET endTime == EndTimeOf(startTime, es, sessionDurationMs)
      actualEndTime == IF es # <<>> THEN es[Len(es)].timestamp ELSE startTime
      agg == Aggregate(es)
  IN [id |-> BlockId("", startTime),
      startTime |-> startTime,
      endTime |-> endTime,
      actualEndTime |-> actualEndTime,
      isActive |-> IsActive(nowT, actualEndTime, endTime, sessionDurationMs),
      isGap |-> FALSE,
      entries |-> es,
      tokenCounts |-> agg.tokenCounts,
      costUSD |-> agg.costUSD,
      models |-> uniq(agg.models)]

\* Fault variant: the length test of the gap is inverted.
createGapBlockInverted(lastActivityTime, nextActivityTime, sessionDurationMs) ==
  IF nextActivityTime - lastActivityTime >= sessionDurationMs THEN <<>>
  ELSE <<[id |-> BlockId("gap-", lastActivityTime + sessionDurationMs),
          startTime |-> lastActivityTime + sessionDurationMs,
          endTime |-> nextActivityTime,
          actualEndTime |-> Undefined,
          isActive |-> FALSE,
          isGap |-> TRUE,
          entries |-> <<>>,
          tokenCounts |-> [inputTokens |-> 0, outputTokens |-> 0,
                           cacheCreationInputTokens |-> 0,
                           cacheReadInputTokens |-> 0],
          costUSD |-> 0,
          models |-> <<>>]>>
\* The gap block, or <<>> for the `null` the code returns when the gap is
\* not longer than the session duration.
createGapBlock(lastActivityTime, nextActivityTime, sessionDurationMs) ==
  LET gapDuration == nextActivityTime - lastActivityTime
      gapStart == lastActivityTime + sessionDurationMs
      gapEnd == nextActivityTime
  IN IF gapDuration <= sessionDurationMs THEN <<>>
     ELSE <<[id |-> BlockId("gap-", gapStart),
             startTime |-> gapStart,
             endTime |-> gapEnd,
             actualEndTime |-> Undefined,
             isActive |-> FALSE,
             isGap |-> TRUE,
             entries |-> <<>>,
             tokenCounts |-> [inputTokens |-> 0, outputTokens |-> 0,
                              cacheCreationInputTokens |-> 0,
                              cacheReadInputTokens |-> 0],
             costUSD |-> 0,
             models |-> <<>>]>>

\* const sessionDurationMs = sessionDurationHours * 60 * 60 * 1000
sessionDurationMs == sessionDurationHours * HourMs

\* Fault variants: the block-start trigger is missing; the comparisons are
\* inverted.
MustCloseLastOnly(timeSinceBlockStart, timeSinceLastEntry) ==
  timeSinceLastEntry > sessionDurationMs
MustCloseInverted(timeSinceBlockStart, timeSinceLastEntry) ==
  timeSinceBlockStart < sessionDurationMs \/ timeSinceLastEntry < sessionDurationMs
\* The split test of the loop: either trigger closes the open block.
MustClose(timeSinceBlockStart, timeSinceLastEntry) ==
  timeSinceBlockStart > sessionDurationMs \/ timeSinceLastEntry > sessionDurationMs

\* ---- the state machine ----------------------------------------------------
\* Nothing has been projected yet.
\* Nothing has been formatted yet.
NoDisplay == [formatted |-> FALSE]

\* The other copies of the engine have not been called.
NoCopies == [called |-> FALSE]

ProjIdle == projected = <<>> /\ display = NoDisplay /\ copies = NoCopies

\* The context reader has not been called.
CtxIdle ==
  /\ logFiles = <<>>
  /\ fileIdx = 0
  /\ sessions = <<>>
  /\ currentPath = <<>>
  /\ contextSession = <<>>
  /\ ctxPc = "idle"

\* The usage loader has not been called.
LoaderIdle ==
  /\ jsonlLines = <<>>
  /\ lineIdx = 0
  /\ processedHashes = {}
  /\ loaded = <<>>

\* main has not entered its loop.
LoopIdle ==
  /\ loopPc = "idle"
  /\ pendingLoads = {}
  /\ blockTotalTokens = Undefined
  /\ high_water_mark = 0
  /\ hwmFile = <<>>
  /\ observedMax = 0
  /\ configFile = 0
  /\ failedStep = ""
  /\ lastLog = ""
  /\ loadOrder = <<>>
  /\ largestBlockTotal = Undefined
  /\ writtenMark = Undefined
  /\ TOKEN_LIMIT = 1
  /\ USE_OBSERVED_IF_HIGHER = TRUE
  /\ EFFECTIVE_TOKEN_LIMIT = Undefined

\* identifySessionBlocks has not been called and has no input.
EngineIdle ==
  /\ entries = <<>>
  /\ entries0 = <<>>
  /\ sessionDurationHours = 1
  /\ clock = 0
  /\ pc = "idle"
  /\ sortedEntries = <<>>
  /\ now = Undefined
  /\ idx = 0
  /\ currentBlockStart = Undefined
  /\ currentBlockEntries = <<>>
  /\ blocks = <<>>
  /\ results = <<>>

Init ==
  /\ entries \in EntryArrays
  /\ entries0 = entries
  /\ sessionDurationHours \in 1..MaxWindowHours
  /\ clock \in 0..MaxNow
  /\ pc = "idle"
  /\ sortedEntries = <<>>
  /\ now = Undefined
  /\ idx = 0
  /\ currentBlockStart = Undefined
  /\ currentBlockEntries = <<>>
  /\ blocks = <<>>
  /\ results = <<>>
  /\ ProjIdle
  /\ CtxIdle
  /\ LoaderIdle
  /\ LoopIdle

\* identifySessionBlocks([]) : the early return, before `now` is sampled.
CallEmpty ==
  /\ pc = "idle"
  /\ Len(results) < MaxCalls
  /\ Len(entries) = 0
  /\ pc' = "returned"
  /\ blocks' = <<>>
  /\ sortedEntries' = <<>>
  /\ now' = Undefined
  /\ idx' = 0
  /\ currentBlockStart' = Undefined
  /\ currentBlockEntries' = <<>>
  /\ UNCHANGED otherVars
  /\ UNCHANGED <<entries, entries0, sessionDurationHours, clock, results>>

\* Entry of identifySessionBlocks up to the head of the for-of loop.
Call ==
  /\ pc = "idle"
  /\ Len(results) < MaxCalls
  /\ Len(entries) # 0
  /\ sortedEntries' = SortByTimestamp(entries)
  /\ entries' = ArrayAfterSort(entries)
  /\ now' = clock
  /\ blocks' = <<>>
  /\ currentBlockStart' = Undefined
  /\ currentBlockEntries' = <<>>
  /\ idx' = 1
  /\ pc' = "loop"
  /\ UNCHANGED otherVars
  /\ UNCHANGED <<entries0, sessionDurationHours, clock, results>>

\* Loop body, first entry: open a block floored to the hour.
OpenFirstBlock ==
  /\ pc = "loop"
  /\ idx <= Len(sortedEntries)
  /\ currentBlockStart = Undefined
  /\ currentBlockStart' = floorToHour(sortedEntries[idx].timestamp)
  /\ currentBlockEntries' = <<sortedEntries[idx]>>
  /\ idx' = idx + 1
  /\ UNCHANGED otherVars
  /\ UNCHANGED <<entries, entries0, sessionDurationHours, clock, pc,
                 sortedEntries, now, blocks, results>>

\* Loop body, a trigger fired: close the open block, emit the gap block if
\* the silence since the last entry exceeds the window, open a new block.
\* (currentBlockEntries is never empty here, so the `continue` of the
\* lastEntry == null test is never taken.)
CloseAndOpenBlock ==
  /\ pc = "loop"
  /\ idx <= Len(sortedEntries)
  /\ currentBlockStart # Undefined
  /\ currentBlockEntries # <<>>
  /\ LET entry == sortedEntries[idx]
         entryTime == entry.timestamp
         timeSinceBlockStart == entryTime - currentBlockStart
         lastEntryTime == currentBlockEntries[Len(currentBlockEntries)].timestamp
         timeSinceLastEntry == entryTime - lastEntryTime
         block == createBlock(currentBlockStart, currentBlockEntries, now,
                              sessionDurationMs)
         gap == IF timeSinceLastEntry > sessionDurationMs
                  THEN createGapBlock(lastEntryTime, entryTime, sessionDurationMs)
                  ELSE <<>>
     IN /\ MustClose(timeSinceBlockStart, timeSinceLastEntry)
        /\ blocks' = Append(blocks, block) \o gap
        /\ currentBlockStart' = floorToHour(entryTime)
        /\ currentBlockEntries' = <<entry>>
  /\ idx' = idx + 1
  /\ UNCHANGED otherVars
  /\ UNCHANGED <<entries, entries0, sessionDurationHours, clock, pc,
                 sortedEntries, now, results>>

\* Loop body, no trigger: the entry joins the open block.
AppendToBlock ==
  /\ pc = "loop"
  /\ idx <= Len(sortedEntries)
  /\ currentBlockStart # Undefined
  /\ currentBlockEntries # <<>>
  /\ LET entry == sortedEntries[idx]
         entryTime == entry.timestamp
         timeSinceBlockStart == entryTime - currentBlockStart
         lastEntryTime == currentBlockEntries[Len(currentBlockEntries)].timestamp
         timeSinceLastEntry == entryTime - lastEntryTime
     IN /\ ~MustClose(timeSinceBlockStart, timeSinceLastEntry)
        /\ currentBlockEntries' = Append(currentBlockEntries, entry)
  /\ idx' = idx + 1
  /\ UNCHANGED otherVars
  /\ UNCHANGED <<entries, entries0, sessionDurationHours, clock, pc,
                 sortedEntries, now, currentBlockStart, blocks, results>>

\* After the loop: close the last block and return.
CloseLastBlock ==
  /\ pc = "loop"
  /\ idx > Len(sortedEntries)
  /\ blocks' = IF currentBlockStart # Undefined /\ Len(currentBlockEntries) > 0
                 THEN Append(blocks, createBlock(currentBlockStart,
                                                 currentBlockEntries, now,
                                                 sessionDurationMs))
                 ELSE blocks
  /\ pc' = "returned"
  /\ UNCHANGED otherVars
  /\ UNCHANGED <<entries, entries0, sessionDurationHours, clock, sortedEntries,
                 now, idx, currentBlockStart, currentBlockEntries, results>>

Next ==
  \/ CallEmpty
  \/ Call
  \/ OpenFirstBlock
  \/ CloseAndOpenBlock
  \/ AppendToBlock
  \/ CloseLastBlock

Spec == Init /\ [][Next]_vars

\* The caller takes the returned list (main keeps it for the cycle); a later
\* cycle calls identifySessionBlocks again on the array it holds.
Return ==
  /\ pc = "returned"
  /\ results' = Append(results, [now |-> now, blocks |-> blocks])
  /\ pc' = "idle"
  /\ UNCHANGED otherVars
  /\ UNCHANGED <<entries, entries0, sessionDurationHours, clock, sortedEntries,
                 now, idx, currentBlockStart, currentBlockEntries, blocks>>

\* Time passes between two calls.
Tick ==
  /\ pc = "idle"
  /\ results # <<>>
  /\ Len(results) < MaxCalls
  /\ clock = results[1].now
  /\ clock < MaxNow
  /\ clock' = clock + 1
  /\ UNCHANGED otherVars
  /\ UNCHANGED <<entries, entries0, sessionDurationHours, pc, sortedEntries,
                 now, idx, currentBlockStart, currentBlockEntries, blocks,
                 results>>

NextRepeat ==
  \/ CallEmpty
  \/ Call
  \/ OpenFirstBlock
  \/ CloseAndOpenBlock
  \/ AppendToBlock
  \/ CloseLastBlock
  \/ Return
  \/ Tick

SpecRepeat == Init /\ [][NextRepeat]_vars

\* ==== Properties of identifySessionBlocks ================================

\* The call has run to its return statement; `blocks` is the returned list.
Returned == pc = "returned"

\* The window duration of the call, in ticks.
WindowDuration == sessionDurationHours * HourMs

\* Positions of the sorted sequence that have a successor.
Pairs == 1..(Len(sortedEntries) - 1)

\* Silence between the record at i and the next one.
Silence(i) == sortedEntries[i + 1].timestamp - sortedEntries[i].timestamp

Holds(j, id) == \E k \in 1..Len(blocks[j].entries) : blocks[j].entries[k].id = id

\* Records i and i+1 of the sorted sequence ended up in one block.
SameBlock(i) ==
  \E j \in 1..Len(blocks) :
    Holds(j, sortedEntries[i].id) /\ Holds(j, sortedEntries[i + 1].id)

\* A gap block sits between the block ending with record i and the block
\* beginning with record i+1.
GapBetween(i) ==
  \E j \in 2..(Len(blocks) - 1) :
    /\ blocks[j].isGap
    /\ ~blocks[j - 1].isGap /\ ~blocks[j + 1].isGap
    /\ blocks[j - 1].entries[Len(blocks[j - 1].entries)].id = sortedEntries[i].id
    /\ blocks[j + 1].entries[1].id = sortedEntries[i + 1].id

\* The block at j is a gap block lying between some consecutive pair.
GapIsBetweenAPair(j) ==
  /\ 1 < j /\ j < Len(blocks)
  /\ ~blocks[j - 1].isGap /\ ~blocks[j + 1].isGap
  /\ \E i \in Pairs :
       /\ blocks[j - 1].entries[Len(blocks[j - 1].entries)].id = sortedEntries[i].id
       /\ blocks[j + 1].entries[1].id = sortedEntries[i + 1].id

\* C1: a gap block is emitted between two consecutive sorted records if and
\* only if the time between them strictly exceeds the window duration; a
\* difference equal to the window duration yields no gap block.
C1_GapIffSilenceExceedsWindow ==
  Returned =>
    /\ \A i \in Pairs : GapBetween(i) <=> Silence(i) > WindowDuration
    /\ \A j \in 1..Len(blocks) : blocks[j].isGap => GapIsBetweenAPair(j)

\* C1 witness: one call returned a list with a gap block after a silence
\* longer than the window, and kept a boundary-equal pair free of a gap.
C1_Witness ==
  /\ Returned
  /\ \E i \in Pairs : Silence(i) > WindowDuration /\ GapBetween(i)
  /\ \E i \in Pairs : Silence(i) = WindowDuration /\ ~GapBetween(i)

\* Index in `blocks` of the block holding record i of the sorted sequence.
BlockOf(i) == CHOOSE j \in 1..Len(blocks) : Holds(j, sortedEntries[i].id)

\* C2 (as stated): two consecutive records exactly one window duration apart
\* always share a block and have no gap block between them, whatever the
\* minute offset of the first record within its hour.
C2_BoundaryNeverSplits ==
  Returned =>
    \A i \in Pairs :
      Silence(i) = WindowDuration => SameBlock(i) /\ ~GapBetween(i)

\* C2 (amended): two consecutive records exactly one window duration apart
\* never have a gap block between them, and the second joins the block of the
\* first exactly when the first sits on that block's floored startTime (so it
\* opens its block at minute offset 0); otherwise the block-start trigger
\* opens a new block at the second record.
C2_BoundarySplitsOnlyOffHour ==
  Returned =>
    \A i \in Pairs :
      Silence(i) = WindowDuration =>
        /\ ~GapBetween(i)
        /\ SameBlock(i) <=>
             sortedEntries[i].timestamp = blocks[BlockOf(i)].startTime
        /\ ~SameBlock(i) =>
             blocks[BlockOf(i + 1)].entries[1].id = sortedEntries[i + 1].id

\* C2 witness: the first record lies off the hour, the second is exactly one
\* window duration later and opened a block of its own, with no gap block.
C2_Witness ==
  /\ Returned
  /\ \E i \in Pairs :
       /\ Silence(i) = WindowDuration
       /\ sortedEntries[i].timestamp % HourMs # 0
       /\ ~SameBlock(i)
       /\ ~GapBetween(i)

\* C3 (as stated): every returned block, gap blocks included, starts on a
\* UTC hour boundary.
C3_EveryStartFloored ==
  Returned => \A j \in 1..Len(blocks) : blocks[j].startTime % HourMs = 0

\* C3 (amended): every session (non-gap) block starts on the UTC hour
\* boundary at or before its first entry; a gap block starts one window
\* duration after the last entry of the block before it, so it keeps that
\* entry's minute offset.
C3_SessionStartFloored ==
  Returned =>
    \A j \in 1..Len(blocks) :
      IF blocks[j].isGap
        THEN /\ j > 1
             /\ blocks[j].startTime = blocks[j - 1].actualEndTime + WindowDuration
             /\ blocks[j].startTime % HourMs = blocks[j - 1].actualEndTime % HourMs
        ELSE /\ blocks[j].startTime % HourMs = 0
             /\ blocks[j].startTime <= blocks[j].entries[1].timestamp
             /\ blocks[j].entries[1].timestamp < blocks[j].startTime + HourMs

\* C3 witness: a returned list with a session block whose first entry lies
\* off the hour and a gap block that starts off the hour.
C3_Witness ==
  /\ Returned
  /\ \E j \in 1..Len(blocks) :
       ~blocks[j].isGap /\ blocks[j].entries[1].timestamp % HourMs # 0
  /\ \E j \in 1..Len(blocks) :
       blocks[j].isGap /\ blocks[j].startTime % HourMs # 0

\* C4 (as stated): all returned blocks, gap blocks included, are pairwise
\* non-overlapping: a block listed earlier ends no later than a later one
\* starts.
C4_AllBlocksDisjoint ==
  Returned =>
    \A a, b \in 1..Len(blocks) :
      a < b => blocks[a].endTime <= blocks[b].startTime

\* C4 (amended): the session (non-gap) blocks are pairwise non-overlapping,
\* and a gap block starts no earlier than every block before it ends; a gap
\* block ends at the next record's timestamp, which lies less than one hour
\* after the floored startTime of the session block that follows it.
C4_SessionBlocksDisjoint ==
  Returned =>
    \A a, b \in 1..Len(blocks) :
      a < b =>
        /\ ~blocks[b].isGap =>
             IF blocks[a].isGap
               THEN blocks[a].endTime < blocks[b].startTime + HourMs
               ELSE blocks[a].endTime <= blocks[b].startTime
        /\ blocks[b].isGap => blocks[a].endTime <= blocks[b].startTime
        /\ (blocks[a].isGap /\ b = a + 1) =>
             blocks[a].endTime = blocks[b].entries[1].timestamp

\* C4 witness: a gap block that ends after the session block following it
\* has started.
C4_Witness ==
  /\ Returned
  /\ \E a \in 1..(Len(blocks) - 1) :
       /\ blocks[a].isGap
       /\ blocks[a].endTime > blocks[a + 1].startTime
  /\ \E a, b \in 1..Len(blocks) : a < b /\ ~blocks[a].isGap /\ ~blocks[b].isGap

\* Number of active blocks in the returned list.
ActiveBlocks == {j \in 1..Len(blocks) : blocks[j].isActive}

\* C5: at most one returned block has isActive = true, for every record set
\* and every value of `now`.
C5_AtMostOneActive ==
  Returned => Cardinality(ActiveBlocks) <= 1

\* C6: a session block is active iff (now - actualEndTime) < windowDuration
\* and now < endTime, with `now` the instant sampled once by the call and
\* actualEndTime the timestamp of the block's last entry; a gap block is
\* never active.
C6_IsActiveFormula ==
  Returned =>
    \A j \in 1..Len(blocks) :
      IF blocks[j].isGap
        THEN ~blocks[j].isActive
        ELSE LET last == blocks[j].entries[Len(blocks[j].entries)].timestamp
             IN /\ blocks[j].actualEndTime = last
                /\ blocks[j].endTime = blocks[j].startTime + WindowDuration
                /\ blocks[j].isActive <=>
                     (now - last < WindowDuration /\ now < blocks[j].endTime)

\* C6 witness: one returned list holds an active session block, a session
\* block that is inactive only because now has reached its endTime, and a
\* gap block.
C6_Witness ==
  /\ Returned
  /\ \E j \in 1..Len(blocks) : ~blocks[j].isGap /\ blocks[j].isActive
  /\ \E j \in 1..Len(blocks) :
       /\ ~blocks[j].isGap /\ ~blocks[j].isActive
       /\ now - blocks[j].actualEndTime < WindowDuration
       /\ now >= blocks[j].endTime
  /\ \E j \in 1..Len(blocks) : blocks[j].isGap

\* Concatenation of the entries of the returned blocks, in list order.
RECURSIVE Flatten(_)
Flatten(bs) ==
  IF bs = <<>> THEN <<>>
  ELSE Flatten(SubSeq(bs, 1, Len(bs) - 1)) \o bs[Len(bs)].entries

RECURSIVE Sum(_)
Sum(ns) == IF ns = <<>> THEN 0 ELSE ns[1] + Sum(Tail(ns))

\* C7: the returned blocks partition the input: their entries, concatenated
\* in list order, are the input records in ascending timestamp order, each
\* exactly once; gap blocks are empty; the four token sums and the cost sum
\* over the blocks equal those over the input; a non-empty input yields at
\* least one block.
C7_BlocksPartitionInput ==
  Returned =>
    LET flat == Flatten(blocks)
    IN /\ Len(flat) = Len(entries0)
       /\ \A k \in 1..Len(entries0) :
            Cardinality({q \in 1..Len(flat) : flat[q] = entries0[k]}) = 1
       /\ \A q \in 1..(Len(flat) - 1) : flat[q].timestamp <= flat[q + 1].timestamp
       /\ \A j \in 1..Len(blocks) : blocks[j].isGap <=> blocks[j].entries = <<>>
       /\ Sum([j \in 1..Len(blocks) |-> blocks[j].tokenCounts.inputTokens])
            = Sum([k \in 1..Len(entries0) |-> entries0[k].inputTokens])
       /\ Sum([j \in 1..Len(blocks) |-> blocks[j].tokenCounts.outputTokens])
            = Sum([k \in 1..Len(entries0) |-> entries0[k].outputTokens])
       /\ Sum([j \in 1..Len(blocks) |-> blocks[j].tokenCounts.cacheCreationInputTokens])
            = Sum([k \in 1..Len(entries0) |-> entries0[k].cacheCreationTokens])
       /\ Sum([j \in 1..Len(blocks) |-> blocks[j].tokenCounts.cacheReadInputTokens])
            = Sum([k \in 1..Len(entries0) |-> entries0[k].cacheReadTokens])
       /\ Sum([j \in 1..Len(blocks) |-> blocks[j].costUSD])
            = Sum([k \in 1..Len(entries0) |-> entries0[k].costUSD])
       /\ Len(entries0) > 0 => Len(blocks) >= 1

\* C7 witness: an input that was not in timestamp order came back as several
\* blocks, one of them a gap block and one holding more than one record.
C7_Witness ==
  /\ Returned
  /\ \E k \in 1..(Len(entries0) - 1) :
       entries0[k].timestamp > entries0[k + 1].timestamp
  /\ \E j \in 1..Len(blocks) : blocks[j].isGap
  /\ \E j \in 1..Len(blocks) : Len(blocks[j].entries) > 1

\* C8: in every session block consecutive entries are at most one window
\* duration apart and every entry lies in [startTime, startTime + window],
\* so actualEndTime never exceeds endTime.
C8_EntriesWithinWindow ==
  Returned =>
    \A j \in 1..Len(blocks) :
      ~blocks[j].isGap =>
        /\ \A k \in 1..(Len(blocks[j].entries) - 1) :
             blocks[j].entries[k + 1].timestamp - blocks[j].entries[k].timestamp
               <= WindowDuration
        /\ \A k \in 1..Len(blocks[j].entries) :
             /\ blocks[j].startTime <= blocks[j].entries[k].timestamp
             /\ blocks[j].entries[k].timestamp <= blocks[j].startTime + WindowDuration
        /\ blocks[j].actualEndTime <= blocks[j].endTime

\* C8 witness: a session block whose first entry lies off the hour and whose
\* last entry sits exactly at startTime + window duration, while another
\* record a full window duration after an off-hour record was split off.
C8_Witness ==
  /\ Returned
  /\ \E j \in 1..Len(blocks) :
       /\ Len(blocks[j].entries) > 1
       /\ blocks[j].actualEndTime = blocks[j].endTime
  /\ \E i \in Pairs : Silence(i) <= WindowDuration /\ ~SameBlock(i)

\* The input timestamps are pairwise more than one window duration apart.
PairwiseApart ==
  \A a, b \in 1..Len(entries0) :
    a # b =>
      \/ entries0[a].timestamp - entries0[b].timestamp > WindowDuration
      \/ entries0[b].timestamp - entries0[a].timestamp > WindowDuration

SessionBlocks == {j \in 1..Len(blocks) : ~blocks[j].isGap}

\* C9: for a non-empty input whose timestamps are pairwise more than one
\* window duration apart, the call returns exactly one session block per
\* record, each with one entry, plus the gap blocks between them.
C9_OneBlockPerIsolatedRecord ==
  (Returned /\ Len(entries0) > 0 /\ PairwiseApart) =>
    /\ Cardinality(SessionBlocks) = Len(entries0)
    /\ \A j \in SessionBlocks : Len(blocks[j].entries) = 1
    /\ Len(blocks) = 2 * Len(entries0) - 1
    /\ \A j \in 1..Len(blocks) : blocks[j].isGap <=> j % 2 = 0

\* C9 witness: two or more pairwise-isolated records, given out of order,
\* have been windowed.
C9_Witness ==
  /\ Returned
  /\ Len(entries0) >= 2
  /\ PairwiseApart
  /\ entries0[1].timestamp > entries0[2].timestamp

\* C10: two calls on the same input that sample the same `now` return the
\* same list of blocks, and a call leaves the caller's array as it was.
C10_RepeatableAndInputUntouched ==
  /\ \A a, b \in 1..Len(results) :
       results[a].now = results[b].now => results[a].blocks = results[b].blocks
  /\ entries = entries0

\* C10 witness: an out-of-order input has been windowed twice at the same
\* `now`, with at least two blocks returned.
C10_Witness ==
  /\ Len(results) >= 2
  /\ results[1].now = results[2].now
  /\ Len(results[2].blocks) >= 2
  /\ \E k \in 1..(Len(entries0) - 1) :
       entries0[k].timestamp > entries0[k + 1].timestamp

\* ==== Burn rate and projection ===========================================
\* A JavaScript number that is not an integer is kept as an exact fraction
\* num / den with den > 0.
Rat(n, d) == [num |-> n, den |-> d]
RatOfInt(n) == Rat(n, 1)
RatAdd(a, b) == Rat(a.num * b.den + b.num * a.den, a.den * b.den)
RatMul(a, b) == Rat(a.num * b.num, a.den * b.den)
RatDiv(a, b) == Rat(a.num * b.den, a.den * b.num)
RatEq(a, b) == a.num * b.den = b.num * a.den
RatLeq(a, b) == a.num * b.den <= b.num * a.den

\* Math.round: the nearest integer, halves rounded up.
MathRound(a) == (2 * a.num + a.den) \div (2 * a.den)

\* Fault variant: a negative remaining time is passed on.
MathMaxZeroMissing(a) == a
\* Math.max(0, x)
MathMaxZero(a) == IF a.num < 0 THEN RatOfInt(0) ELSE a

\* (milliseconds) / (1000 * 60), with the time difference given in ticks.
Minutes(ticks) == Rat(ticks * 60, HourMs)

getTotalTokens(tokenCounts) ==
  tokenCounts.inputTokens + tokenCounts.outputTokens
    + tokenCounts.cacheCreationInputTokens + tokenCounts.cacheReadInputTokens

\* Fault variant: only a negative duration is refused.
NoElapsedTimeNegativeOnly(durationMinutes) == durationMinutes.num < 0
\* if (durationMinutes <= 0) return null
NoElapsedTime(durationMinutes) == durationMinutes.num <= 0

\* The burn rate of a block, or <<>> for `null`.
calculateBurnRate(block) ==
  IF Len(block.entries) = 0 \/ block.isGap THEN <<>>
  ELSE LET firstEntry == block.entries[1]
           lastEntry == block.entries[Len(block.entries)]
           durationMinutes == Minutes(lastEntry.timestamp - firstEntry.timestamp)
           totalTokens == getTotalTokens(block.tokenCounts)
           nonCacheTokens == block.tokenCounts.inputTokens
                               + block.tokenCounts.outputTokens
       IN IF NoElapsedTime(durationMinutes) THEN <<>>
          ELSE <<[tokensPerMinute |-> RatDiv(RatOfInt(totalTokens), durationMinutes),
                  tokensPerMinuteForIndicator |->
                    RatDiv(RatOfInt(nonCacheTokens), durationMinutes),
                  costPerHour |->
                    RatMul(RatDiv(RatOfInt(block.costUSD), durationMinutes),
                           RatOfInt(60))]>>

\* currentTokens + burnRate.tokensPerMinute * remainingMinutes
ProjectedTotalTokens(currentTokens, tokensPerMinute, remainingMinutes) ==
  RatAdd(RatOfInt(currentTokens), RatMul(tokensPerMinute, remainingMinutes))

\* Fault variant: the caller's isActive flag is not consulted.
ProjectionRefusedGapOnly(block) == block.isGap
\* if (!block.isActive || (block.isGap ?? false)) return null
ProjectionRefused(block) == ~block.isActive \/ block.isGap

\* projectBlockUsage of session-blocks-simple.ts at time nowT: the
\* projection as computed, or <<>> for `null`.
projectBlockUsage(block, nowT) ==
  IF ProjectionRefused(block) THEN <<>>
  ELSE LET burnRate == calculateBurnRate(block)
       IN IF burnRate = <<>> THEN <<>>
          ELSE LET remainingTime == block.endTime - nowT
                   remainingMinutes == MathMaxZero(Minutes(remainingTime))
                   currentTokens == getTotalTokens(block.tokenCounts)
                   totalTokens ==
                     ProjectedTotalTokens(currentTokens,
                                          burnRate[1].tokensPerMinute,
                                          remainingMinutes)
                   totalCost ==
                     RatAdd(RatOfInt(block.costUSD),
                            RatMul(burnRate[1].costPerHour,
                                   RatDiv(remainingMinutes, RatOfInt(60))))
               IN <<[totalTokens |-> totalTokens,
                     totalCost |-> totalCost,
                     remainingMinutes |-> remainingMinutes]>>

\* Fault variant: the token total is truncated instead of rounded.
RoundTokensTruncating(totalTokens) == totalTokens.num \div totalTokens.den
\* totalTokens: Math.round(totalTokens)
RoundTokens(totalTokens) == MathRound(totalTokens)

\* projectBlockUsage of index.ts: the same computation, returned rounded
\* (tokens and minutes to integers, cost to cents).
projectBlockUsageIndex(block, nowT) ==
  LET exact == projectBlockUsage(block, nowT)
  IN IF exact = <<>> THEN <<>>
     ELSE <<[totalTokens |-> RoundTokens(exact[1].totalTokens),
             totalCost |-> Rat(MathRound(RatMul(exact[1].totalCost, RatOfInt(100))),
                               100),
             remainingMinutes |-> MathRound(exact[1].remainingMinutes)]>>

\* A block with no entries that is not a gap, as createBlock builds it.
EmptyBlock == createBlock(floorToHour(now), <<>>, now, sessionDurationMs)

\* calculateBurnRate(block) for one of the returned blocks.
CalcBurnRate ==
  /\ pc = "returned"
  /\ \E j \in 1..Len(blocks) :
       projected' = [block |-> blocks[j],
                     burnRate |-> calculateBurnRate(blocks[j]),
                     at |-> Undefined,
                     projection |-> <<>>,
                     projectionIndex |-> <<>>]
  /\ pc' = "rated"
  /\ UNCHANGED <<ctxVars, loaderVars, loopVars, display, copies>>
  /\ UNCHANGED <<entries, entries0, sessionDurationHours, clock, sortedEntries,
                 now, idx, currentBlockStart, currentBlockEntries, blocks,
                 results>>

\* calculateBurnRate(block) for a block without entries.
CalcBurnRateOfEmptyBlock ==
  /\ pc = "returned"
  /\ projected' = [block |-> EmptyBlock,
                   burnRate |-> calculateBurnRate(EmptyBlock),
                   at |-> Undefined,
                   projection |-> <<>>,
                   projectionIndex |-> <<>>]
  /\ pc' = "rated"
  /\ UNCHANGED <<ctxVars, loaderVars, loopVars, display, copies>>
  /\ UNCHANGED <<entries, entries0, sessionDurationHours, clock, sortedEntries,
                 now, idx, currentBlockStart, currentBlockEntries, blocks,
                 results>>

\* Time passes between the windowing pass and the projection.
Elapse ==
  /\ pc = "rated"
  /\ clock - now < MaxElapse
  /\ clock' = clock + 1
  /\ UNCHANGED otherVars
  /\ UNCHANGED <<entries, entries0, sessionDurationHours, pc, sortedEntries,
                 now, idx, currentBlockStart, currentBlockEntries, blocks,
                 results>>

\* projectBlockUsage(block): `new Date()` is sampled by the call itself.
ProjectBlock ==
  /\ pc = "rated"
  /\ projected' = [projected EXCEPT
                     !.at = clock,
                     !.projection = projectBlockUsage(projected.block, clock),
                     !.projectionIndex =
                       projectBlockUsageIndex(projected.block, clock)]
  /\ pc' = "projected"
  /\ UNCHANGED <<ctxVars, loaderVars, loopVars, display, copies>>
  /\ UNCHANGED <<entries, entries0, sessionDurationHours, clock, sortedEntries,
                 now, idx, currentBlockStart, currentBlockEntries, blocks,
                 results>>

NextProject ==
  \/ CallEmpty
  \/ Call
  \/ OpenFirstBlock
  \/ CloseAndOpenBlock
  \/ AppendToBlock
  \/ CloseLastBlock
  \/ CalcBurnRate
  \/ CalcBurnRateOfEmptyBlock
  \/ Elapse
  \/ ProjectBlock

SpecProject == Init /\ [][NextProject]_vars

\* ==== Properties of calculateBurnRate and projectBlockUsage ===============

\* A burn rate has been computed for projected.block.
Rated == pc \in {"rated", "projected"}

\* projectBlockUsage has returned for projected.block.
Projected == pc = "projected"

\* Minutes between the first and the last entry of the rated block.
ElapsedTicks ==
  LET es == projected.block.entries
  IN es[Len(es)].timestamp - es[1].timestamp

\* C11: calculateBurnRate returns null for a block without entries, a gap
\* block, a single-entry block and a block whose first and last entry carry
\* the same timestamp; for every other block it returns a rate, and every
\* quotient in it has a strictly positive denominator.
C11_BurnRateNullIffNoElapsedTime ==
  Rated =>
    LET b == projected.block
        noRate == \/ Len(b.entries) = 0
                  \/ b.isGap
                  \/ Len(b.entries) = 1
                  \/ ElapsedTicks <= 0
    IN /\ noRate <=> projected.burnRate = <<>>
       /\ projected.burnRate # <<>> =>
            /\ projected.burnRate[1].tokensPerMinute.den > 0
            /\ projected.burnRate[1].tokensPerMinuteForIndicator.den > 0
            /\ projected.burnRate[1].costPerHour.den > 0

\* A block of several entries sharing one timestamp got no rate.
C11_Witness ==
  /\ Rated
  /\ ~projected.block.isGap
  /\ Len(projected.block.entries) >= 2
  /\ ElapsedTicks = 0
  /\ projected.burnRate = <<>>

\* C12: projectBlockUsage returns a projection exactly when the block is
\* active, is not a gap and has a burn rate; otherwise it returns null.
C12_ProjectionIffActiveNonGapRated ==
  Projected =>
    LET b == projected.block
        projectable == b.isActive /\ ~b.isGap /\ calculateBurnRate(b) # <<>>
    IN /\ projectable <=> projected.projection # <<>>
       /\ projectable <=> projected.projectionIndex # <<>>
       /\ projected.burnRate = calculateBurnRate(b)

\* An active block with a burn rate was projected, and so was refused a
\* projection only for lack of a rate in another run.
C12_Witness ==
  /\ Projected
  /\ projected.block.isActive
  /\ ~projected.block.isGap
  /\ projected.burnRate # <<>>
  /\ projected.projection # <<>>
  /\ projected.projectionIndex # <<>>

\* The block's current total of all four token kinds.
CurrentTokens == getTotalTokens(projected.block.tokenCounts)

\* Ticks left until the block's endTime when the projection was made,
\* never below zero.
RemainingTicks ==
  IF projected.block.endTime - projected.at < 0 THEN 0
  ELSE projected.block.endTime - projected.at

\* current total + (current total / elapsed minutes) * remaining minutes
ExpectedTotalTokens ==
  Rat(CurrentTokens * ElapsedTicks + CurrentTokens * RemainingTicks,
      ElapsedTicks)

\* 200 tokens over 10 minutes with 5 minutes remaining project to 300.
ExampleProjectsTo300 ==
  RatEq(ProjectedTotalTokens(200, RatDiv(RatOfInt(200), RatOfInt(10)),
                             RatOfInt(5)),
        RatOfInt(300))

\* C13 as stated: every projection's totalTokens is exactly the current
\* total plus tokensPerMinute * remainingMinutes.
C13_TotalTokensExact ==
  /\ ExampleProjectsTo300
  /\ (Projected /\ projected.projection # <<>>) =>
       /\ RatEq(projected.projection[1].totalTokens, ExpectedTotalTokens)
       /\ RatEq(RatOfInt(projected.projectionIndex[1].totalTokens),
                ExpectedTotalTokens)

\* C13: the projection of session-blocks-simple.ts carries exactly the
\* current total plus tokensPerMinute * remainingMinutes; the projection of
\* index.ts carries that value rounded to the nearest integer.
C13_TotalTokensExactOrRounded ==
  /\ ExampleProjectsTo300
  /\ (Projected /\ projected.projection # <<>>) =>
       /\ RatEq(projected.projection[1].totalTokens, ExpectedTotalTokens)
       /\ projected.projectionIndex[1].totalTokens
            = MathRound(ExpectedTotalTokens)

\* A projection whose exact value is not a whole number of tokens.
C13_Witness ==
  /\ Projected
  /\ projected.projection # <<>>
  /\ RemainingTicks > 0
  /\ (CurrentTokens * RemainingTicks) % ElapsedTicks # 0
  /\ ~RatEq(RatOfInt(projected.projectionIndex[1].totalTokens),
            projected.projection[1].totalTokens)

\* C14: no projection has negative remainingMinutes or a totalTokens below
\* the block's current total; a projection made at or after the block's
\* endTime has remainingMinutes 0 and the current total.
C14_RemainingMinutesClamped ==
  (Projected /\ projected.projection # <<>>) =>
    LET exact == projected.projection[1]
        shown == projected.projectionIndex[1]
    IN /\ RatLeq(RatOfInt(0), exact.remainingMinutes)
       /\ shown.remainingMinutes >= 0
       /\ RatLeq(RatOfInt(CurrentTokens), exact.totalTokens)
       /\ shown.totalTokens >= CurrentTokens
       /\ projected.at >= projected.block.endTime =>
            /\ RatEq(exact.remainingMinutes, RatOfInt(0))
            /\ shown.remainingMinutes = 0
            /\ RatEq(exact.totalTokens, RatOfInt(CurrentTokens))
            /\ shown.totalTokens = CurrentTokens

\* A block that was active at the windowing pass is projected after its
\* endTime has passed.
C14_Witness ==
  /\ Projected
  /\ projected.projection # <<>>
  /\ now < projected.block.endTime
  /\ projected.at > projected.block.endTime

\* ==== Context reader and resolver ========================================
\* A string is the sequence of its characters.
MaxPathLen == 4
MaxSessions == 2
MaxRecords == 3
MaxFiles == 2

PathChars == {"/", ".", "a", "b"}

Paths == UNION {[1..n -> PathChars] : n \in 0..MaxPathLen}

\* Project directory names, which getContextSessionData uses as sessionId.
SessionIdPool == {<<"a">>, <<"-", "b">>, <<"a", "-", "b">>, <<"b", "a">>}

\* A ContextSessionData; the session at position k of a list drawn for the
\* resolver carries k as its token counts.
ContextSession(id, k) ==
  [sessionId |-> id, cacheReadTokens |-> k, inputTokens |-> k,
   mostRecentTimestamp |-> k]

SessionLists ==
  UNION {{[k \in 1..n |-> ContextSession(ids[k], k)] : ids \in [1..n -> SessionIdPool]}
         : n \in 0..MaxSessions}

\* String.prototype.split("/")
RECURSIVE SplitSlash(_)
SplitSlash(str) ==
  IF str = <<>> THEN << <<>> >>
  ELSE LET init == SplitSlash(SubSeq(str, 1, Len(str) - 1))
           c == str[Len(str)]
       IN IF c = "/" THEN Append(init, <<>>)
          ELSE [init EXCEPT ![Len(init)] = Append(@, c)]

\* Array.prototype.join("/")
RECURSIVE JoinSlash(_)
JoinSlash(parts) ==
  IF parts = <<>> THEN <<>>
  ELSE IF Len(parts) = 1 THEN parts[1]
  ELSE JoinSlash(SubSeq(parts, 1, Len(parts) - 1)) \o <<"/">> \o parts[Len(parts)]

\* str.replace(/\./g, "-")
ReplaceDots(str) == [k \in 1..Len(str) |-> IF str[k] = "." THEN "-" ELSE str[k]]

\* String.prototype.includes
Includes(str, searchString) ==
  \E k \in 0..(Len(str) - Len(searchString)) :
    \A c \in 1..Len(searchString) : str[k + c] = searchString[c]

\* sessions.find((s) => s.sessionId && s.sessionId.includes(name)): the
\* first session that passes, or <<>> for `undefined`.
FindSession(list, normalizedProjName) ==
  LET passing == {k \in 1..Len(list) :
                    /\ list[k].sessionId # <<>>
                    /\ Includes(list[k].sessionId, normalizedProjName)}
  IN IF passing = {} THEN <<>>
     ELSE <<list[CHOOSE k \in passing : \A l \in passing : k <= l]>>

\* Fault variant: the prefixes are tried from the root downwards.
LevelOrderRootFirst(n) == [k \in 1..n |-> k]
\* for (let i = pathParts.length; i > 0; i--): the values of i, in order.
LevelOrder(n) == [k \in 1..n |-> n - k + 1]

\* The loop body from the k-th value of i on.
RECURSIVE WalkUp(_, _, _)
WalkUp(list, pathParts, k) ==
  IF k > Len(pathParts) THEN <<>>
  ELSE LET i == LevelOrder(Len(pathParts))[k]
           testPath == JoinSlash(SubSeq(pathParts, 1, i))
           split == SplitSlash(testPath)
           testProjName == split[Len(split)]
           normalizedProjName == ReplaceDots(testProjName)
           foundSession == FindSession(list, normalizedProjName)
       IN IF foundSession # <<>> THEN foundSession
          ELSE WalkUp(list, pathParts, k + 1)

\* The session found, or <<>> for `null`.
findContextSessionByPath(list, path) == WalkUp(list, SplitSlash(path), 1)

\* Sessions and a path as the caller of findContextSessionByPath holds them.
InitResolver ==
  /\ EngineIdle
  /\ ProjIdle
  /\ LoaderIdle
  /\ LoopIdle
  /\ logFiles = <<>>
  /\ fileIdx = 0
  /\ sessions \in SessionLists
  /\ currentPath \in Paths
  /\ contextSession = <<>>
  /\ ctxPc = "scanned"

\* contextDataReader.findContextSessionByPath(contextSessions, currentPath)
ResolveContext ==
  /\ ctxPc = "scanned"
  /\ contextSession' = findContextSessionByPath(sessions, currentPath)
  /\ ctxPc' = "resolved"
  /\ UNCHANGED <<logFiles, fileIdx, sessions, currentPath>>
  /\ UNCHANGED outsideCtx

NextResolver == ResolveContext

SpecResolver == InitResolver /\ [][NextResolver]_vars

\* ==== Properties of findContextSessionByPath ==============================

Resolved == ctxPc = "resolved"

\* The components of the current path, the root's empty one included.
Components == SplitSlash(currentPath)

\* Positions of the sessions whose id contains the name of level i.
MatchesAt(i) ==
  {k \in 1..Len(sessions) :
     Includes(sessions[k].sessionId, ReplaceDots(Components[i]))}

MatchingLevels == {i \in 1..Len(Components) : MatchesAt(i) # {}}

DeepestMatchingLevel ==
  CHOOSE i \in MatchingLevels : \A l \in MatchingLevels : l <= i

ExampleSessions == <<ContextSession(<<"m", "y", "-", "p", "r", "o", "j", "e", "c", "t", "-", "a", "b", "c">>, 1)>>

ExamplePath == <<"/", "h", "o", "m", "e", "/", "u", "s", "e", "r", "/", "m", "y", ".", "p", "r", "o", "j", "e", "c", "t", "/", "s", "r", "c">>

\* Sessions ["my-project-abc"] and /home/user/my.project/src resolve to
\* my-project-abc.
ExampleResolves ==
  findContextSessionByPath(ExampleSessions, ExamplePath) = <<ExampleSessions[1]>>

\* C15: the resolver returns the first session in list order whose id
\* contains the dot-to-hyphen-normalized last component of the deepest
\* prefix that has any match, so a deeper match wins over a shallower one.
C15_DeepestMatchFirstInList ==
  /\ ExampleResolves
  /\ (Resolved /\ MatchingLevels # {}) =>
       /\ contextSession # <<>>
       /\ \E k \in MatchesAt(DeepestMatchingLevel) :
            /\ contextSession[1] = sessions[k]
            /\ \A l \in MatchesAt(DeepestMatchingLevel) : k <= l

\* Two levels match different sessions and the deeper one is returned,
\* although the shallower one's session comes first in the list.
C15_Witness ==
  /\ Resolved
  /\ \E i \in MatchingLevels :
       /\ i < DeepestMatchingLevel
       /\ Components[i] # <<>>
       /\ \E k \in MatchesAt(i) : \A l \in MatchesAt(DeepestMatchingLevel) : k < l
  /\ contextSession[1] = sessions[2]

\* Directory names on the current path: its non-empty components.
DirectoryNames == {i \in 1..Len(Components) : Components[i] # <<>>}

\* C16: the resolver returns null whenever no directory name on the current
\* path, dots replaced by hyphens, is contained in any session's id.
C16_NullWhenNoDirectoryMatches ==
  (Resolved /\ \A i \in DirectoryNames : MatchesAt(i) = {}) =>
    contextSession = <<>>

\* ==== getContextSessionData ==============================================
\* One line of a log file: its timestamp and message.usage, or a line that
\* does not parse or lacks them (usable = FALSE).  Timestamps are ticks
\* after new Date(0).
UsageLine(t, cacheRead, input) ==
  [usable |-> TRUE, timestamp |-> t, cache_read_input_tokens |-> cacheRead,
   input_tokens |-> input]

MalformedLine ==
  [usable |-> FALSE, timestamp |-> 0, cache_read_input_tokens |-> 0,
   input_tokens |-> Undefined]

LinePool ==
  {UsageLine(1, 5, 2), UsageLine(2, 9, Undefined), UsageLine(2, 7, 1),
   UsageLine(3, 0, 4), UsageLine(1, 0, 0), MalformedLine}

LineSeqs == UNION {[1..n -> LinePool] : n \in 0..MaxRecords}

\* A .jsonl file of a project directory.
LogFile(project, lines) == [project |-> project, lines |-> lines]

\* usage.input_tokens || 0
OrZero(x) == IF x = Undefined THEN 0 ELSE x

\* Fault variant: of two lines with one timestamp the earlier one is kept.
NotOlderStrict(timestamp, mostRecentTimestamp) == timestamp > mostRecentTimestamp
\* timestamp >= mostRecentTimestamp
NotOlder(timestamp, mostRecentTimestamp) == timestamp >= mostRecentTimestamp

\* The body of the line loop.
ScanLine(acc, data) ==
  IF ~data.usable THEN acc
  ELSE LET taken == /\ data.cache_read_input_tokens > 0
                    /\ NotOlder(data.timestamp, acc.mostRecentTimestamp)
       IN [cacheReadTokens |->
             IF taken THEN data.cache_read_input_tokens ELSE acc.cacheReadTokens,
           mostRecentTimestamp |->
             IF taken THEN data.timestamp ELSE acc.mostRecentTimestamp,
           inputTokens |-> acc.inputTokens + OrZero(data.input_tokens)]

\* The line loop over a file, from cacheReadTokens = 0, inputTokens = 0 and
\* mostRecentTimestamp = new Date(0).
RECURSIVE ScanLines(_)
ScanLines(lines) ==
  IF lines = <<>>
    THEN [cacheReadTokens |-> 0, mostRecentTimestamp |-> 0, inputTokens |-> 0]
    ELSE ScanLine(ScanLines(SubSeq(lines, 1, Len(lines) - 1)), lines[Len(lines)])

\* sessions.push(Object.freeze({...})), once per file
PushSession(list, session) == Append(list, session)

\* One file as getContextSessionData handles it.
SessionsAfterFile(list, file) ==
  LET acc == ScanLines(file.lines)
  IN IF acc.cacheReadTokens > 0 \/ acc.inputTokens > 0
       THEN PushSession(list, [sessionId |-> file.project,
                               cacheReadTokens |-> acc.cacheReadTokens,
                               inputTokens |-> acc.inputTokens,
                               mostRecentTimestamp |-> acc.mostRecentTimestamp])
       ELSE list

\* The body of `for (const file of files)`.
ScanFile ==
  /\ ctxPc = "scanning"
  /\ fileIdx < Len(logFiles)
  /\ sessions' = SessionsAfterFile(sessions, logFiles[fileIdx + 1])
  /\ fileIdx' = fileIdx + 1
  /\ UNCHANGED <<logFiles, currentPath, contextSession, ctxPc>>
  /\ UNCHANGED outsideCtx

\* return Object.freeze(sessions)
ReturnSessions ==
  /\ ctxPc = "scanning"
  /\ fileIdx = Len(logFiles)
  /\ ctxPc' = "scanned"
  /\ UNCHANGED <<logFiles, fileIdx, sessions, currentPath, contextSession>>
  /\ UNCHANGED outsideCtx

\* One project directory holding one log file.
InitScan ==
  /\ EngineIdle
  /\ ProjIdle
  /\ LoaderIdle
  /\ LoopIdle
  /\ logFiles \in {<<LogFile(<<"-", "b">>, lines)>> : lines \in LineSeqs}
  /\ fileIdx = 0
  /\ sessions = <<>>
  /\ currentPath = <<"/", "b">>
  /\ contextSession = <<>>
  /\ ctxPc = "scanning"

NextScan ==
  \/ ScanFile
  \/ ReturnSessions
  \/ ResolveContext

SpecScan == InitScan /\ [][NextScan]_vars

\* ==== Properties of one session's aggregation =============================

\* The file of the single group has been scanned.
Scanned == ctxPc \in {"scanning", "scanned", "resolved"} /\ fileIdx = 1

GroupLines == logFiles[1].lines

\* Positions of the group's records that carry a positive cache_read.
CacheReaders ==
  {k \in 1..Len(GroupLines) :
     GroupLines[k].usable /\ GroupLines[k].cache_read_input_tokens > 0}

\* The one with the greatest timestamp; of several, the one scanned last.
MostRecentReader ==
  CHOOSE k \in CacheReaders :
    \A l \in CacheReaders :
      \/ GroupLines[l].timestamp < GroupLines[k].timestamp
      \/ (GroupLines[l].timestamp = GroupLines[k].timestamp /\ l <= k)

ExpectedCacheRead ==
  IF CacheReaders = {} THEN 0
  ELSE GroupLines[MostRecentReader].cache_read_input_tokens

RECURSIVE SumInput(_)
SumInput(lines) ==
  IF lines = <<>> THEN 0
  ELSE SumInput(SubSeq(lines, 1, Len(lines) - 1))
         + (IF lines[Len(lines)].usable /\ lines[Len(lines)].input_tokens # Undefined
              THEN lines[Len(lines)].input_tokens ELSE 0)

\* The records' timestamps are pairwise distinct.
DistinctTimestamps ==
  \A k, l \in 1..Len(GroupLines) :
    (k # l /\ GroupLines[k].usable /\ GroupLines[l].usable)
      => GroupLines[k].timestamp # GroupLines[l].timestamp

Reorderings ==
  {[k \in 1..Len(GroupLines) |-> GroupLines[f[k]]] :
     f \in Permutations(1..Len(GroupLines))}

\* C17: a session's cacheReadTokens is the cache_read of the record with
\* the greatest timestamp among its group's records with cache_read > 0 (0
\* if there is none), the later-scanned one on equal timestamps, whatever
\* the scan order when timestamps are distinct; its inputTokens is the sum
\* of input_tokens over the group's records.  A group with neither yields
\* no session.
C17_MostRecentCacheReadAndInputSum ==
  Scanned =>
    /\ (ExpectedCacheRead = 0 /\ SumInput(GroupLines) = 0) <=> sessions = <<>>
    /\ sessions # <<>> =>
         /\ Len(sessions) = 1
         /\ sessions[1].cacheReadTokens = ExpectedCacheRead
         /\ sessions[1].inputTokens = SumInput(GroupLines)
         /\ DistinctTimestamps =>
              \A r \in Reorderings :
                ScanLines(r).cacheReadTokens = sessions[1].cacheReadTokens

\* Two records with the greatest timestamp: the later-scanned, smaller
\* value is kept, which is neither the maximum nor the sum.
C17_Witness ==
  /\ Scanned
  /\ sessions # <<>>
  /\ \E k, l \in CacheReaders :
       /\ k < l
       /\ GroupLines[k].timestamp = GroupLines[l].timestamp
       /\ GroupLines[k].cache_read_input_tokens > GroupLines[l].cache_read_input_tokens
       /\ l = MostRecentReader
       /\ sessions[1].cacheReadTokens = GroupLines[l].cache_read_input_tokens

\* ==== One cycle's context data: all files, then the resolver ==============
LogFilePool ==
  {LogFile(<<"-", "b">>, <<UsageLine(1, 5, 2)>>),
   LogFile(<<"-", "b">>, <<UsageLine(2, 9, Undefined), UsageLine(1, 5, 2)>>),
   LogFile(<<"-", "b">>, <<UsageLine(3, 0, 4)>>),
   LogFile(<<"a">>, <<UsageLine(2, 7, 1)>>),
   LogFile(<<"a">>, <<MalformedLine>>)}

LogFileLists == UNION {[1..n -> LogFilePool] : n \in 0..MaxFiles}

WorkingDirectories == {<<"/", "b">>, <<"/", "a", "/", "b">>, <<"a">>}

InitContextData ==
  /\ EngineIdle
  /\ ProjIdle
  /\ LoaderIdle
  /\ LoopIdle
  /\ logFiles \in LogFileLists
  /\ fileIdx = 0
  /\ sessions = <<>>
  /\ currentPath \in WorkingDirectories
  /\ contextSession = <<>>
  /\ ctxPc = "scanning"

NextContextData ==
  \/ ScanFile
  \/ ReturnSessions
  \/ ResolveContext

SpecContextData == InitContextData /\ [][NextContextData]_vars

\* All lines of a project, over all of its files, in scan order.
RECURSIVE ProjectLines(_, _)
ProjectLines(files, project) ==
  IF files = <<>> THEN <<>>
  ELSE ProjectLines(SubSeq(files, 1, Len(files) - 1), project)
         \o (IF files[Len(files)].project = project
               THEN files[Len(files)].lines ELSE <<>>)

\* C18 as stated: the list returned by getContextSessionData holds one
\* session per project, and the session the resolver returns carries the
\* most recent cache_read over all of that project's records.
C18_OneSessionPerProject ==
  /\ ctxPc \in {"scanned", "resolved"} =>
       \A k, l \in 1..Len(sessions) :
         k # l => sessions[k].sessionId # sessions[l].sessionId
  /\ (Resolved /\ contextSession # <<>>) =>
       contextSession[1].cacheReadTokens
         = ScanLines(ProjectLines(logFiles, contextSession[1].sessionId)).cacheReadTokens

\* ==== loadUsageEntries: deduplication ====================================
MaxLines == 3

\* An optional string of the schema: absent, or a sequence of characters.
NullId == [isNull |-> TRUE, str |-> <<>>]
Id(str) == [isNull |-> FALSE, str |-> str]

MessageIds == {NullId, Id(<<"a">>), Id(<<"a", ":", "b">>)}
RequestIds == {NullId, Id(<<"c">>), Id(<<"b", ":", "c">>)}

\* A line that passes usageDataSchema.safeParse, or one that does not.
ValidLines ==
  {[valid |-> TRUE, messageId |-> m, requestId |-> r] :
     m \in MessageIds, r \in RequestIds}

InvalidLine ==
  [valid |-> FALSE, messageId |-> Id(<<"a">>), requestId |-> Id(<<"c">>)]

JsonlLineSeqs ==
  UNION {[1..n -> ValidLines \cup {InvalidLine}] : n \in 0..MaxLines}

\* `${messageId}:${requestId}`, or <<>> for `null`.
createUniqueHash(data) ==
  IF data.messageId.isNull \/ data.requestId.isNull THEN <<>>
  ELSE <<data.messageId.str \o <<":">> \o data.requestId.str>>

isDuplicateEntry(uniqueHash, hashes) ==
  IF uniqueHash = <<>> THEN FALSE ELSE uniqueHash[1] \in hashes

\* The set after markAsProcessed.
markAsProcessed(uniqueHash, hashes) ==
  IF uniqueHash # <<>> THEN hashes \cup {uniqueHash[1]} ELSE hashes

\* The lines of the recent files, in reading order; one processedHashes
\* set serves all of them.
InitLoader ==
  /\ EngineIdle
  /\ ProjIdle
  /\ CtxIdle
  /\ LoopIdle
  /\ jsonlLines \in JsonlLineSeqs
  /\ lineIdx = 0
  /\ processedHashes = {}
  /\ loaded = <<>>

\* The body of `for (const line of lines)`; `loaded` lists the positions of
\* the lines pushed to entries.
ProcessLine ==
  /\ lineIdx < Len(jsonlLines)
  /\ LET data == jsonlLines[lineIdx + 1]
         uniqueHash == createUniqueHash(data)
     IN IF ~data.valid \/ isDuplicateEntry(uniqueHash, processedHashes)
          THEN UNCHANGED <<processedHashes, loaded>>
          ELSE /\ processedHashes' = markAsProcessed(uniqueHash, processedHashes)
               /\ loaded' = Append(loaded, lineIdx + 1)
  /\ lineIdx' = lineIdx + 1
  /\ UNCHANGED jsonlLines
  /\ UNCHANGED outsideLoader

NextLoader == ProcessLine

SpecLoader == InitLoader /\ [][NextLoader]_vars

\* ==== Properties of the deduplication ====================================

\* The valid line at position k was read and not pushed.
Dropped(k) ==
  /\ k <= lineIdx
  /\ jsonlLines[k].valid
  /\ \A p \in 1..Len(loaded) : loaded[p] # k

\* Both records carry both ids, and the ids are pairwise the same.
SamePair(j, k) ==
  /\ ~jsonlLines[j].messageId.isNull /\ ~jsonlLines[j].requestId.isNull
  /\ ~jsonlLines[k].messageId.isNull /\ ~jsonlLines[k].requestId.isNull
  /\ jsonlLines[j].messageId = jsonlLines[k].messageId
  /\ jsonlLines[j].requestId = jsonlLines[k].requestId

\* C19 as stated: a record is dropped exactly when an earlier-read record
\* had the same messageId and the same requestId, both present.
C19_DroppedIffSamePairEarlier ==
  \A k \in 1..lineIdx :
    jsonlLines[k].valid =>
      (Dropped(k) <=> \E j \in 1..(k - 1) : jsonlLines[j].valid /\ SamePair(j, k))

HasColon(id) == \E c \in 1..Len(id.str) : id.str[c] = ":"

\* The same statement for inputs none of whose ids contains a colon.
DroppedIffSamePairEarlierWithoutColons ==
  (\A k \in 1..Len(jsonlLines) :
     ~HasColon(jsonlLines[k].messageId) /\ ~HasColon(jsonlLines[k].requestId))
    => C19_DroppedIffSamePairEarlier

\* ==== The refresh loop of main ===========================================
MaxTokens == 2

\* The four promises handed to Promise.all.
Loads == {"loadUsageEntries", "getContextSessionData", "getGitBranch", "pwd"}

\* getGitBranch catches its own errors; the other three can reject.
RejectingLoads == Loads \ {"getGitBranch"}

\* Fault variant: the high-water-mark write sits outside the try block, so
\* its rejection leaves main.
AfterThrowWriteEscapes(step) == IF step = "hwmWrite" THEN "exited" ELSE "caught"
\* Where control goes when a step inside `try { ... }` throws: the catch
\* clause of the same iteration.
AfterThrow(step) == "caught"

\* ---- the high-water-mark file ----
\* Texts are sequences of one-character strings.
DigitChars == <<"0", "1", "2", "3", "4", "5", "6", "7", "8", "9">>
WhiteSpaceChars == {" ", "\n", "\t"}

DigitValue(c) == (CHOOSE d \in 1..Len(DigitChars) : DigitChars[d] = c) - 1
IsDigit(c, radix) ==
  \E d \in 1..Len(DigitChars) : DigitChars[d] = c /\ d - 1 < radix

\* Number.prototype.toString() of a non-negative integer.
RECURSIVE toString(_)
toString(n) ==
  IF n < Radix THEN <<DigitChars[n + 1]>>
  ELSE Append(toString(n \div Radix), DigitChars[(n % Radix) + 1])

\* The longest prefix of str made of digits of the radix, as a number;
\* acc is the value of the digits read so far.
RECURSIVE DigitsValue(_, _, _)
DigitsValue(str, radix, acc) ==
  IF str = <<>> \/ ~IsDigit(str[1], radix) THEN acc
  ELSE DigitsValue(Tail(str), radix, acc * radix + DigitValue(str[1]))

RECURSIVE TrimStart(_)
TrimStart(str) ==
  IF str # <<>> /\ str[1] \in WhiteSpaceChars THEN TrimStart(Tail(str)) ELSE str

\* Fault variant: only the first digit is read.
parseIntFirstDigit(str, radix) ==
  LET t == TrimStart(str)
  IN IF t = <<>> \/ ~IsDigit(t[1], radix) THEN <<>> ELSE <<DigitValue(t[1])>>
\* parseInt(str, radix): leading white space is skipped, a sign is taken,
\* then the digits up to the first other character; <<>> is NaN.
parseInt(str, radix) ==
  LET t == TrimStart(str)
      negative == t # <<>> /\ t[1] = "-"
      u == IF t # <<>> /\ t[1] \in {"-", "+"} THEN Tail(t) ELSE t
  IN IF u = <<>> \/ ~IsDigit(u[1], radix) THEN <<>>
     ELSE <<(IF negative THEN -1 ELSE 1) * DigitsValue(u, radix, 0)>>

\* parseInt(data, 10) || 0 : NaN and 0 both give 0.
ParseHighWaterMark(data) ==
  LET parsed == parseInt(data, Radix)
  IN IF parsed = <<>> \/ parsed[1] = 0 THEN 0 ELSE parsed[1]

\* What the file holds when main starts: nothing readable, a value written
\* by an earlier run, or some other text.
HighWaterMarkFiles ==
  {<<>>} \cup {<<toString(n)>> : n \in 0..MaxTokens}
    \cup {<< <<>> >>, << <<"x">> >>, << <<" ", "1", "x">> >>}

\* main before its loop, with whatever the two files hold.
InitLoopOf(files, limits, flags) ==
  /\ EngineIdle
  /\ ProjIdle
  /\ CtxIdle
  /\ LoaderIdle
  /\ loopPc = "idle"
  /\ pendingLoads = {}
  /\ blockTotalTokens = Undefined
  /\ high_water_mark = 0
  /\ hwmFile \in files
  /\ observedMax = 0
  /\ configFile \in 0..MaxTokens
  /\ failedStep = ""
  /\ lastLog = ""
  /\ loadOrder = <<>>
  /\ largestBlockTotal = Undefined
  /\ writtenMark = Undefined
  /\ TOKEN_LIMIT \in limits
  /\ USE_OBSERVED_IF_HIGHER \in flags
  /\ EFFECTIVE_TOKEN_LIMIT = Undefined

\* ccstat.json with USE_OBSERVED_IF_HIGHER as DEFAULT_CONFIG has it and a
\* TOKEN_LIMIT no total exceeds.
InitLoop == InitLoopOf(HighWaterMarkFiles, {MaxTokens}, {TRUE})

\* The startup reads: the high-water-mark file (0 when it cannot be read)
\* and loadConfig.
Startup ==
  /\ loopPc = "idle"
  /\ high_water_mark' = IF hwmFile = <<>> THEN 0
                      ELSE ParseHighWaterMark(hwmFile[1])
  /\ observedMax' = configFile
  /\ loopPc' = "top"
  /\ UNCHANGED <<pendingLoads, blockTotalTokens, hwmFile, configFile,
                 failedStep, lastLog>>
  /\ UNCHANGED loadOrder
  /\ UNCHANGED largestBlockTotal
  /\ UNCHANGED writtenMark
  /\ UNCHANGED TOKEN_LIMIT
  /\ UNCHANGED USE_OBSERVED_IF_HIGHER
  /\ UNCHANGED EFFECTIVE_TOKEN_LIMIT
  /\ UNCHANGED outsideLoop

\* The top of `while (true)`: the four loads are issued together and every
\* local of the iteration is fresh.
StartCycle ==
  /\ loopPc = "top"
  /\ loopPc' = "loading"
  /\ pendingLoads' = Loads
  /\ blockTotalTokens' = Undefined
  /\ failedStep' = ""
  /\ UNCHANGED <<high_water_mark, hwmFile, observedMax, configFile, lastLog>>
  /\ loadOrder' = <<>>
  /\ largestBlockTotal' = Undefined
  /\ UNCHANGED writtenMark
  /\ UNCHANGED TOKEN_LIMIT
  /\ UNCHANGED USE_OBSERVED_IF_HIGHER
  /\ EFFECTIVE_TOKEN_LIMIT' = Undefined
  /\ UNCHANGED outsideLoop

\* One of the loads fulfils.
LoadCompletes ==
  /\ loopPc = "loading"
  /\ \E l \in pendingLoads :
       /\ pendingLoads' = pendingLoads \ {l}
       /\ loadOrder' = Append(loadOrder, l)
  /\ UNCHANGED <<loopPc, blockTotalTokens, high_water_mark, hwmFile,
                 observedMax, configFile, failedStep, lastLog>>
  /\ UNCHANGED largestBlockTotal
  /\ UNCHANGED writtenMark
  /\ UNCHANGED TOKEN_LIMIT
  /\ UNCHANGED USE_OBSERVED_IF_HIGHER
  /\ UNCHANGED EFFECTIVE_TOKEN_LIMIT
  /\ UNCHANGED outsideLoop

\* One of the loads rejects: Promise.all rejects at once; the loads left
\* in pendingLoads go on running with nobody awaiting them.
LoadFails ==
  /\ loopPc = "loading"
  /\ \E l \in pendingLoads \cap RejectingLoads : pendingLoads' = pendingLoads \ {l}
  /\ failedStep' = "load"
  /\ loopPc' = AfterThrow("load")
  /\ UNCHANGED <<blockTotalTokens, high_water_mark, hwmFile, observedMax,
                 configFile, lastLog>>
  /\ loadOrder' = <<>>
  /\ UNCHANGED largestBlockTotal
  /\ UNCHANGED writtenMark
  /\ UNCHANGED TOKEN_LIMIT
  /\ UNCHANGED USE_OBSERVED_IF_HIGHER
  /\ UNCHANGED EFFECTIVE_TOKEN_LIMIT
  /\ UNCHANGED outsideLoop

\* let config: the fields the limit depends on.
config ==
  [TOKEN_LIMIT |-> TOKEN_LIMIT,
   OBSERVED_MAX_TOKEN |-> observedMax,
   USE_OBSERVED_IF_HIGHER |-> USE_OBSERVED_IF_HIGHER]

\* Fault variant: the observed maximum is used whatever the flag says.
getEffectiveTokenLimitIgnoringFlag(cfg) ==
  IF cfg.OBSERVED_MAX_TOKEN > cfg.TOKEN_LIMIT
    THEN cfg.OBSERVED_MAX_TOKEN ELSE cfg.TOKEN_LIMIT
getEffectiveTokenLimit(cfg) ==
  IF cfg.USE_OBSERVED_IF_HIGHER /\ cfg.OBSERVED_MAX_TOKEN > cfg.TOKEN_LIMIT
    THEN cfg.OBSERVED_MAX_TOKEN ELSE cfg.TOKEN_LIMIT

\* Fault variant: Promise.race, settled by the first load.
PromiseRaceFulfilled(pending) == pending # Loads
\* await Promise.all([...]) returns when every load has fulfilled; the
\* fulfilled values are destructured and their order is gone.
PromiseAllFulfilled(pending) == pending = {}

\* identifySessionBlocks, blocks.find(isActive) and the display values:
\* the cycle has an active block with some total, or none; totals is the
\* set the totals of the loaded records' blocks are drawn from.
WindowingOf(totals) ==
  /\ loopPc = "loading"
  /\ PromiseAllFulfilled(pendingLoads)
  /\ blockTotalTokens' \in {Undefined} \cup totals
  /\ loopPc' = "windowed"
  /\ UNCHANGED <<pendingLoads, high_water_mark, hwmFile, observedMax,
                 configFile, failedStep, lastLog>>
  /\ loadOrder' = <<>>
  \* blocks holds every block of the loaded records; the active block, when
  \* there is one, is one of them.
  /\ largestBlockTotal' \in
       {t \in {Undefined} \cup totals : t >= blockTotalTokens'}
  /\ UNCHANGED writtenMark
  /\ UNCHANGED TOKEN_LIMIT
  /\ UNCHANGED USE_OBSERVED_IF_HIGHER
  /\ EFFECTIVE_TOKEN_LIMIT' = getEffectiveTokenLimit(config)
  /\ UNCHANGED outsideLoop

Windowing == WindowingOf(0..MaxTokens)

WindowingFails ==
  /\ loopPc = "loading"
  /\ PromiseAllFulfilled(pendingLoads)
  /\ failedStep' = "windowing"
  /\ loopPc' = AfterThrow("windowing")
  /\ UNCHANGED <<pendingLoads, blockTotalTokens, high_water_mark, hwmFile,
                 observedMax, configFile, lastLog>>
  /\ loadOrder' = <<>>
  /\ UNCHANGED largestBlockTotal
  /\ UNCHANGED writtenMark
  /\ UNCHANGED TOKEN_LIMIT
  /\ UNCHANGED USE_OBSERVED_IF_HIGHER
  /\ UNCHANGED EFFECTIVE_TOKEN_LIMIT
  /\ UNCHANGED outsideLoop

\* if (activeBlock) is false: straight to the render.
NoActiveBlock ==
  /\ loopPc = "windowed"
  /\ blockTotalTokens = Undefined
  /\ loopPc' = "rendering"
  /\ UNCHANGED <<pendingLoads, blockTotalTokens, high_water_mark, hwmFile,
                 observedMax, configFile, failedStep, lastLog>>
  /\ UNCHANGED loadOrder
  /\ UNCHANGED largestBlockTotal
  /\ UNCHANGED writtenMark
  /\ UNCHANGED TOKEN_LIMIT
  /\ UNCHANGED USE_OBSERVED_IF_HIGHER
  /\ UNCHANGED EFFECTIVE_TOKEN_LIMIT
  /\ UNCHANGED outsideLoop

\* config = await updateObservedMaxIfHigher(config, blockTotalTokens);
\* saveConfig catches a failed write itself and warns.
UpdateObservedMax ==
  /\ loopPc = "windowed"
  /\ blockTotalTokens # Undefined
  /\ IF blockTotalTokens > observedMax
       THEN /\ observedMax' = blockTotalTokens
            /\ \/ /\ configFile' = blockTotalTokens
                  /\ UNCHANGED <<failedStep, lastLog>>
               \/ /\ failedStep' = "configSave"
                  /\ lastLog' = "Failed to save ccstat.json"
                  /\ UNCHANGED configFile
       ELSE UNCHANGED <<observedMax, configFile, failedStep, lastLog>>
  /\ loopPc' = "configSaved"
  /\ UNCHANGED <<pendingLoads, blockTotalTokens, high_water_mark, hwmFile>>
  /\ UNCHANGED loadOrder
  /\ UNCHANGED largestBlockTotal
  /\ UNCHANGED writtenMark
  /\ UNCHANGED TOKEN_LIMIT
  /\ UNCHANGED USE_OBSERVED_IF_HIGHER
  /\ UNCHANGED EFFECTIVE_TOKEN_LIMIT
  /\ UNCHANGED outsideLoop

\* if (blockTotalTokens > high_water_mark) { high_water_mark = ...; await
\* writeFile(...) }, the write succeeding.
WriteHighWaterMark ==
  /\ loopPc = "configSaved"
  /\ IF blockTotalTokens > high_water_mark
       THEN /\ high_water_mark' = blockTotalTokens
            /\ hwmFile' = <<toString(blockTotalTokens)>>
       ELSE UNCHANGED <<high_water_mark, hwmFile>>
  /\ loopPc' = "rendering"
  /\ UNCHANGED <<pendingLoads, blockTotalTokens, observedMax, configFile,
                 failedStep, lastLog>>
  /\ UNCHANGED loadOrder
  /\ UNCHANGED largestBlockTotal
  /\ writtenMark' = IF blockTotalTokens > high_water_mark
                      THEN blockTotalTokens ELSE writtenMark
  /\ UNCHANGED TOKEN_LIMIT
  /\ UNCHANGED USE_OBSERVED_IF_HIGHER
  /\ UNCHANGED EFFECTIVE_TOKEN_LIMIT
  /\ UNCHANGED outsideLoop

\* The same with writeFile rejecting: the variable is already raised.
WriteHighWaterMarkFails ==
  /\ loopPc = "configSaved"
  /\ blockTotalTokens > high_water_mark
  /\ high_water_mark' = blockTotalTokens
  /\ failedStep' = "hwmWrite"
  /\ loopPc' = AfterThrow("hwmWrite")
  /\ UNCHANGED <<pendingLoads, blockTotalTokens, hwmFile, observedMax,
                 configFile, lastLog>>
  /\ UNCHANGED loadOrder
  /\ UNCHANGED largestBlockTotal
  /\ UNCHANGED writtenMark
  /\ UNCHANGED TOKEN_LIMIT
  /\ UNCHANGED USE_OBSERVED_IF_HIGHER
  /\ UNCHANGED EFFECTIVE_TOKEN_LIMIT
  /\ UNCHANGED outsideLoop

\* The four console.log lines of the status display.
Render ==
  /\ loopPc = "rendering"
  /\ lastLog' = "status"
  /\ loopPc' = "delay"
  /\ UNCHANGED <<pendingLoads, blockTotalTokens, high_water_mark, hwmFile,
                 observedMax, configFile, failedStep>>
  /\ UNCHANGED loadOrder
  /\ UNCHANGED largestBlockTotal
  /\ UNCHANGED writtenMark
  /\ UNCHANGED TOKEN_LIMIT
  /\ UNCHANGED USE_OBSERVED_IF_HIGHER
  /\ UNCHANGED EFFECTIVE_TOKEN_LIMIT
  /\ UNCHANGED outsideLoop

RenderFails ==
  /\ loopPc = "rendering"
  /\ failedStep' = "render"
  /\ loopPc' = AfterThrow("render")
  /\ UNCHANGED <<pendingLoads, blockTotalTokens, high_water_mark, hwmFile,
                 observedMax, configFile, lastLog>>
  /\ UNCHANGED loadOrder
  /\ UNCHANGED largestBlockTotal
  /\ UNCHANGED writtenMark
  /\ UNCHANGED TOKEN_LIMIT
  /\ UNCHANGED USE_OBSERVED_IF_HIGHER
  /\ UNCHANGED EFFECTIVE_TOKEN_LIMIT
  /\ UNCHANGED outsideLoop

\* catch (error) { console.log("Error updating status:", ...) }
CatchAndLog ==
  /\ loopPc = "caught"
  /\ lastLog' = "Error updating status"
  /\ loopPc' = "delay"
  /\ UNCHANGED <<pendingLoads, blockTotalTokens, high_water_mark, hwmFile,
                 observedMax, configFile, failedStep>>
  /\ UNCHANGED loadOrder
  /\ UNCHANGED largestBlockTotal
  /\ UNCHANGED writtenMark
  /\ UNCHANGED TOKEN_LIMIT
  /\ UNCHANGED USE_OBSERVED_IF_HIGHER
  /\ UNCHANGED EFFECTIVE_TOKEN_LIMIT
  /\ UNCHANGED outsideLoop

\* await new Promise((resolve) => setTimeout(resolve, REFRESH_INTERVAL_MS))
RefreshDelay ==
  /\ loopPc = "delay"
  /\ loopPc' = "top"
  /\ UNCHANGED <<pendingLoads, blockTotalTokens, high_water_mark, hwmFile,
                 observedMax, configFile, failedStep, lastLog>>
  /\ UNCHANGED loadOrder
  /\ UNCHANGED largestBlockTotal
  /\ UNCHANGED writtenMark
  /\ UNCHANGED TOKEN_LIMIT
  /\ UNCHANGED USE_OBSERVED_IF_HIGHER
  /\ UNCHANGED EFFECTIVE_TOKEN_LIMIT
  /\ UNCHANGED outsideLoop

NextLoop ==
  \/ Startup
  \/ StartCycle
  \/ LoadCompletes
  \/ LoadFails
  \/ Windowing
  \/ WindowingFails
  \/ NoActiveBlock
  \/ UpdateObservedMax
  \/ WriteHighWaterMark
  \/ WriteHighWaterMarkFails
  \/ Render
  \/ RenderFails
  \/ CatchAndLog
  \/ RefreshDelay

SpecLoop == InitLoop /\ [][NextLoop]_vars

\* Every await settles and every timer fires: main never stalls.
SpecLoopFair == SpecLoop /\ WF_vars(NextLoop)

\* ==== Properties of the refresh loop ======================================

FailingSteps == {"load", "windowing", "configSave", "hwmWrite", "render"}

\* A cycle begins with all four loads issued and nothing kept from the
\* cycle before.
FreshCycle ==
  /\ loopPc = "loading"
  /\ pendingLoads = Loads
  /\ blockTotalTokens = Undefined
  /\ failedStep = ""

\* C20: a failure of a load, the windowing, the config save, the
\* high-water-mark write or the render never ends the loop; it is caught
\* and logged, and after the refresh delay a next cycle starts afresh.
C20_FailureNeverEndsLoop ==
  /\ [](loopPc # "exited")
  /\ []((loopPc = "delay" /\ failedStep \in FailingSteps \ {"configSave"}) =>
          lastLog = "Error updating status")
  /\ []((loopPc = "configSaved" /\ failedStep = "configSave") =>
          lastLog = "Failed to save ccstat.json")
  /\ \A step \in FailingSteps : (failedStep = step) ~> FreshCycle

\* A cycle has started after the cycle before it failed and logged.
C20_Witness ==
  /\ FreshCycle
  /\ lastLog = "Error updating status"

\* The step issues the four loads of a cycle.
IssuesLoads == loopPc # "loading" /\ loopPc' = "loading" /\ pendingLoads' = Loads

\* C21: a cycle issues its loads only from the loop top, which is reached
\* only at startup or when the refresh delay has elapsed; the delay begins
\* only after the cycle has rendered or caught its error, and a caught
\* error is always followed by the delay; windowing and rendering happen
\* only when all four loads have fulfilled, whatever their order.
C21_CyclesNeverOverlap ==
  /\ [][IssuesLoads => loopPc = "top"]_vars
  /\ [][(loopPc' = "top" /\ loopPc # "top") => loopPc \in {"idle", "delay"}]_vars
  /\ [][(loopPc' = "delay" /\ loopPc # "delay")
          => loopPc \in {"rendering", "caught"}]_vars
  /\ [][loopPc = "caught" => loopPc' \in {"caught", "delay"}]_vars
  /\ [](loopPc \in {"windowed", "configSaved", "rendering"} => pendingLoads = {})
  /\ []((loopPc = "loading" /\ PromiseAllFulfilled(pendingLoads)) =>
          /\ Len(loadOrder) = Cardinality(Loads)
          /\ {loadOrder[k] : k \in 1..Len(loadOrder)} = Loads)

\* All four loads have fulfilled, the one issued last first, in a cycle
\* that follows a caught error.
C21_Witness ==
  /\ loopPc = "loading"
  /\ loadOrder = <<"pwd", "getGitBranch", "getContextSessionData", "loadUsageEntries">>
  /\ lastLog = "Error updating status"
\* ---- C22 ----------------------------------------------------------------

\* The windowing engine returns an inactive block whose total exceeds the
\* total of the active block it returns with it.
InactiveBlockExceedsActive ==
  /\ Returned
  /\ \E i, j \in 1..Len(blocks) :
       /\ ~blocks[i].isGap /\ ~blocks[j].isGap
       /\ blocks[i].isActive /\ ~blocks[j].isActive
       /\ getTotalTokens(blocks[j].tokenCounts)
            > getTotalTokens(blocks[i].tokenCounts)

\* C22: after every refresh cycle that completes without error the
\* high-water mark is at least the total of every block computed in that
\* cycle, active or not, and the high-water mark never decreases.
C22_HighWaterMarkCoversEveryBlock ==
  /\ []((loopPc = "delay" /\ failedStep = "")
          => high_water_mark >= largestBlockTotal)
  /\ [][high_water_mark' >= high_water_mark]_vars

\* The part of C22 the code keeps: the mark covers the active block and
\* never decreases.
C22_HighWaterMarkCoversActiveBlock ==
  /\ []((loopPc = "delay" /\ failedStep = "")
          => high_water_mark >= blockTotalTokens)
  /\ [][high_water_mark' >= high_water_mark]_vars

C22_Witness ==
  /\ loopPc = "delay"
  /\ failedStep = ""
  /\ blockTotalTokens # Undefined
  /\ largestBlockTotal > blockTotalTokens
  /\ high_water_mark = blockTotalTokens
\* ---- C23 ----------------------------------------------------------------

\* Totals of more than one digit, for the text of the high-water-mark file.
LargeTotals == {0, 7, 10, 12, 105}

WindowingLargeTotals == WindowingOf(LargeTotals)

\* The process is ended and ccstat is started again: main begins with its
\* initial locals; the files stay as they are.
Restart ==
  /\ loopPc \in {"delay", "rendering"}
  /\ loopPc' = "idle"
  /\ pendingLoads' = {}
  /\ blockTotalTokens' = Undefined
  /\ high_water_mark' = 0
  /\ observedMax' = 0
  /\ failedStep' = ""
  /\ lastLog' = ""
  /\ loadOrder' = <<>>
  /\ largestBlockTotal' = Undefined
  /\ EFFECTIVE_TOKEN_LIMIT' = Undefined
  /\ UNCHANGED <<hwmFile, configFile, writtenMark, TOKEN_LIMIT,
                 USE_OBSERVED_IF_HIGHER>>
  /\ UNCHANGED outsideLoop

InitRoundTrip ==
  /\ InitLoop
  /\ configFile = 0

NextRoundTrip ==
  \/ Startup
  \/ StartCycle
  \/ LoadCompletes
  \/ WindowingLargeTotals
  \/ NoActiveBlock
  \/ UpdateObservedMax
  \/ WriteHighWaterMark
  \/ WriteHighWaterMarkFails
  \/ Render
  \/ CatchAndLog
  \/ RefreshDelay
  \/ Restart

SpecRoundTrip == InitRoundTrip /\ [][NextRoundTrip]_vars

\* The step of main that reads the high-water-mark file at startup.
StartupLoad == loopPc = "idle" /\ loopPc' = "top"

\* C23: after the loop has written X to the high-water-mark file, a later
\* startup load reads exactly X; when the file cannot be read the startup
\* load yields 0, logs nothing and main goes on to its loop.
C23_HighWaterMarkRoundTrips ==
  /\ [][(StartupLoad /\ writtenMark # Undefined) => high_water_mark' = writtenMark]_vars
  /\ [][(StartupLoad /\ hwmFile = <<>>)
          => (high_water_mark' = 0 /\ lastLog' = lastLog /\ failedStep' = "")]_vars
  /\ [](writtenMark # Undefined => hwmFile = <<toString(writtenMark)>>)

\* ccstat has been started again and has read back a three-digit and, in
\* another run, a two-digit mark it wrote before.
C23_Witness ==
  /\ loopPc = "top"
  /\ lastLog = ""
  /\ writtenMark >= Radix
  /\ high_water_mark = writtenMark
\* ---- C25 ----------------------------------------------------------------

\* The high-water mark a startup load would take from the file as it is.
DiskMark == IF hwmFile = <<>> THEN 0 ELSE ParseHighWaterMark(hwmFile[1])

\* main is at `if (blockTotalTokens > high_water_mark)` with an active-block
\* total above the value on disk.
TotalExceedsDisk ==
  /\ loopPc = "configSaved"
  /\ blockTotalTokens # Undefined
  /\ blockTotalTokens > DiskMark

\* C25: a failed write of the high-water-mark file is retried by the next
\* cycle: whenever a cycle's active-block total exceeds the value on disk,
\* the cycle attempts the write (it writes the total or its write fails).
C25_FailedWriteIsRetried ==
  [][TotalExceedsDisk =>
       \/ hwmFile' = <<toString(blockTotalTokens)>>
       \/ failedStep' = "hwmWrite"]_vars

\* What the code does instead: a write is attempted only for a total above
\* the mark in memory, which a failed write has already raised.
C25_WriteOnlyAboveMemoryMark ==
  [][(loopPc = "configSaved" /\ blockTotalTokens <= high_water_mark)
       => (hwmFile' = hwmFile /\ failedStep' = failedStep)]_vars

\* The cycle after a failed write, with the same total: the mark in memory
\* is already the total while the file still holds less.
C25_Witness ==
  /\ TotalExceedsDisk
  /\ blockTotalTokens = high_water_mark
\* ---- C30 ----------------------------------------------------------------

\* ccstat.json with any TOKEN_LIMIT and either value of the flag; no
\* high-water-mark file.
InitLimits == InitLoopOf({<<>>}, 0..MaxTokens, BOOLEAN)

SpecLimits == InitLimits /\ [][NextLoop]_vars

\* Math.round((blockTotalTokens * 100) / EFFECTIVE_TOKEN_LIMIT): <<n>>, or
\* <<>> when the limit is 0 and the quotient is NaN or Infinity.
UsedPct(total, limit) ==
  IF limit = 0 THEN <<>> ELSE <<MathRound(Rat(total * 100, limit))>>

\* const usedPct of a cycle that has an active block.
usedPct == UsedPct(blockTotalTokens, EFFECTIVE_TOKEN_LIMIT)

Max(a, b) == IF a > b THEN a ELSE b

\* The step in which a cycle raises OBSERVED_MAX_TOKEN.
NewMaximumSeen == loopPc = "windowed" /\ observedMax' > observedMax

\* C30: OBSERVED_MAX_TOKEN never decreases; the effective limit is at least
\* TOKEN_LIMIT, namely max(TOKEN_LIMIT, OBSERVED_MAX_TOKEN) with
\* USE_OBSERVED_IF_HIGHER and TOKEN_LIMIT without; the Used percentage of
\* the cycle that sees a new maximum is computed against the limit from
\* before the maximum is raised; with the flag set, a cycle whose total
\* does not exceed a maximum seen before shows Used <= 100%.
C30_ObservedMaxAndEffectiveLimit ==
  /\ [][observedMax' >= observedMax]_vars
  /\ [](/\ getEffectiveTokenLimit(config) >= TOKEN_LIMIT
        /\ getEffectiveTokenLimit(config) =
             IF USE_OBSERVED_IF_HIGHER THEN Max(TOKEN_LIMIT, observedMax)
                                       ELSE TOKEN_LIMIT)
  /\ [][NewMaximumSeen =>
          /\ EFFECTIVE_TOKEN_LIMIT = getEffectiveTokenLimit(config)
          /\ EFFECTIVE_TOKEN_LIMIT' = EFFECTIVE_TOKEN_LIMIT
          /\ usedPct' = UsedPct(blockTotalTokens, getEffectiveTokenLimit(config))]_vars
  /\ []((/\ loopPc = "windowed"
         /\ blockTotalTokens # Undefined
         /\ USE_OBSERVED_IF_HIGHER
         /\ observedMax > 0
         /\ blockTotalTokens <= observedMax)
          => (usedPct # <<>> /\ usedPct[1] <= 100))

\* A cycle has raised the observed maximum above TOKEN_LIMIT and shows more
\* than 100% for it: the percentage was computed against the old limit.
C30_Witness ==
  /\ loopPc = "configSaved"
  /\ USE_OBSERVED_IF_HIGHER
  /\ observedMax = blockTotalTokens
  /\ observedMax > TOKEN_LIMIT
  /\ TOKEN_LIMIT > 0
  /\ usedPct[1] > 100
  /\ getEffectiveTokenLimit(config) > EFFECTIVE_TOKEN_LIMIT
\* ---- C24 ----------------------------------------------------------------

\* DEFAULT_CONFIG: the thresholds of the display.
BURN_RATE_HIGH_THRESHOLD == 1000
BURN_RATE_MODERATE_THRESHOLD == 500
TIME_WARNING_THRESHOLD == 80
TIME_CRITICAL_THRESHOLD == 90
USAGE_WARNING_THRESHOLD == 80
USAGE_CRITICAL_THRESHOLD == 90
CONTEXT_WARNING_THRESHOLD == 60
CONTEXT_CRITICAL_THRESHOLD == 80
MAX_CONTEXT_TOKENS == 200000

\* config.MAX_BLOCK_MINUTES is the length of the window in minutes (300 for
\* the 5 hours of DEFAULT_SESSION_DURATION_HOURS).
MAX_BLOCK_MINUTES == sessionDurationHours * 60

\* blocks.find((block) => block.isActive): <<block>>, or <<>> for undefined.
FindActiveBlock(bs) ==
  IF \E j \in 1..Len(bs) : bs[j].isActive
    THEN <<bs[CHOOSE j \in 1..Len(bs) :
                /\ bs[j].isActive
                /\ \A i \in 1..(j - 1) : ~bs[i].isActive]>>
    ELSE <<>>

\* pct >= critical ? "red" : pct >= warning ? "yellow" : "green"
ThresholdColor(pct, warning, critical) ==
  IF RatLeq(RatOfInt(critical), pct) THEN "red"
  ELSE IF RatLeq(RatOfInt(warning), pct) THEN "yellow"
  ELSE "green"

\* The values the display fields are initialised with.
TimePlaceholder == [text |-> "N/A", h |-> 0, m |-> 0,
                    timePct |-> RatOfInt(0), color |-> "yellow"]
ContextPlaceholder == [text |-> "N/A", currentTokens |-> 0, contextPct |-> 0,
                       color |-> "green"]
BurnRatePlaceholder == [text |-> "Normal", color |-> "green"]
UsedPlaceholder == [pct |-> 0, color |-> "green"]
ProjectedPlaceholder == [pct |-> 0, color |-> "green"]

\* The time field for an active block whose projection is `projection`.
TimeDisplayOf(projection) ==
  LET remainingMinutes ==
        IF projection = <<>> THEN 0 ELSE projection[1].remainingMinutes
      usedMinutes == MAX_BLOCK_MINUTES - remainingMinutes
      timePct == Rat(usedMinutes * 100, MAX_BLOCK_MINUTES)
  IN [text |-> "left",
      h |-> remainingMinutes \div 60,
      m |-> remainingMinutes % 60,
      timePct |-> timePct,
      color |-> ThresholdColor(timePct, TIME_WARNING_THRESHOLD,
                               TIME_CRITICAL_THRESHOLD)]

\* The burn-rate field: burnRate?.tokensPerMinuteForIndicator || 0 against
\* the two thresholds.
BurnRateDisplayOf(burnRate) ==
  LET tokensPerMinute ==
        IF burnRate = <<>> THEN RatOfInt(0)
        ELSE burnRate[1].tokensPerMinuteForIndicator
  IN IF ~RatLeq(tokensPerMinute, RatOfInt(BURN_RATE_HIGH_THRESHOLD))
       THEN [text |-> "High", color |-> "red"]
     ELSE IF ~RatLeq(tokensPerMinute, RatOfInt(BURN_RATE_MODERATE_THRESHOLD))
       THEN [text |-> "Moderate", color |-> "yellow"]
     ELSE [text |-> "Normal", color |-> "green"]

\* Used and Projected: Math.round(tokens * 100 / EFFECTIVE_TOKEN_LIMIT) and
\* its colour.
PercentDisplayOf(tokens, limit) ==
  LET pct == MathRound(Rat(tokens * 100, limit))
  IN [pct |-> pct,
      color |-> ThresholdColor(RatOfInt(pct), USAGE_WARNING_THRESHOLD,
                               USAGE_CRITICAL_THRESHOLD)]

\* The context field of an activeContextSession.
ContextDisplayOf(session) ==
  LET currentTokens ==
        IF session.cacheReadTokens # 0 THEN session.cacheReadTokens
        ELSE session.inputTokens
      contextPct == MathRound(Rat(currentTokens * 100, MAX_CONTEXT_TOKENS))
  IN [text |-> "tokens", currentTokens |-> currentTokens,
      contextPct |-> contextPct,
      color |-> ThresholdColor(RatOfInt(contextPct), CONTEXT_WARNING_THRESHOLD,
                               CONTEXT_CRITICAL_THRESHOLD)]

\* What findContextSessionByPath may have returned to the cycle.
ActiveContextSessions ==
  {<<>>,
   <<[cacheReadTokens |-> 0, inputTokens |-> 0]>>,
   <<[cacheReadTokens |-> 0, inputTokens |-> 130000]>>,
   <<[cacheReadTokens |-> 170000, inputTokens |-> 5]>>}

\* "Extract and Format Data" of main for the blocks identifySessionBlocks
\* returned.
FormatDisplay ==
  /\ pc = "returned"
  /\ display = NoDisplay
  /\ \E activeContextSession \in ActiveContextSessions :
       LET activeBlock == FindActiveBlock(blocks)
           limit == getEffectiveTokenLimit(config)
           projection == IF activeBlock = <<>> THEN <<>>
                         ELSE projectBlockUsageIndex(activeBlock[1], now)
           burnRate == IF activeBlock = <<>> THEN <<>>
                       ELSE calculateBurnRate(activeBlock[1])
       IN display' =
            [formatted |-> TRUE,
             activeBlock |-> activeBlock,
             projection |-> projection,
             burnRate |-> burnRate,
             activeContextSession |-> activeContextSession,
             timeDisplay |->
               IF activeBlock = <<>> THEN TimePlaceholder
               ELSE TimeDisplayOf(projection),
             burnRateDisplay |->
               IF activeBlock = <<>> THEN BurnRatePlaceholder
               ELSE BurnRateDisplayOf(burnRate),
             usedDisplay |->
               IF activeBlock = <<>> THEN UsedPlaceholder
               ELSE PercentDisplayOf(getTotalTokens(activeBlock[1].tokenCounts),
                                     limit),
             projectedDisplay |->
               IF activeBlock = <<>> THEN ProjectedPlaceholder
               ELSE PercentDisplayOf(IF projection = <<>> THEN 0
                                     ELSE projection[1].totalTokens, limit),
             contextDisplay |->
               IF activeContextSession = <<>> THEN ContextPlaceholder
               ELSE ContextDisplayOf(activeContextSession[1])]
  /\ UNCHANGED <<projected, copies>>
  /\ UNCHANGED engineVars
  /\ UNCHANGED <<ctxVars, loaderVars, loopVars>>

NextDisplay ==
  \/ Next
  \/ FormatDisplay

SpecDisplay == Init /\ [][NextDisplay]_vars

\* "0h 0m left" on a fully used, critical-coloured bar.
TimeShownAsUsedUp(t) ==
  /\ t.text = "left" /\ t.h = 0 /\ t.m = 0
  /\ RatEq(t.timePct, RatOfInt(100))
  /\ t.color = "red"

\* C24: whenever a computation of the cycle yields an absent result (no
\* active block, a null burn rate or projection of the active block, no
\* context session) the display fields that depend on it show their
\* placeholder; with a null projection the time field is not "0h 0m left"
\* on a fully used, critical-coloured bar.
C24_AbsentResultsShowPlaceholders ==
  display.formatted =>
    /\ display.activeBlock = <<>> =>
         /\ display.timeDisplay = TimePlaceholder
         /\ display.burnRateDisplay = BurnRatePlaceholder
         /\ display.usedDisplay = UsedPlaceholder
         /\ display.projectedDisplay = ProjectedPlaceholder
    /\ display.burnRate = <<>> => display.burnRateDisplay = BurnRatePlaceholder
    /\ display.projection = <<>> =>
         /\ display.timeDisplay = TimePlaceholder
         /\ display.projectedDisplay = ProjectedPlaceholder
         /\ ~TimeShownAsUsedUp(display.timeDisplay)
    /\ display.activeContextSession = <<>> =>
         display.contextDisplay = ContextPlaceholder

\* The same without the time field of an active block: what the code keeps.
C24_PlaceholdersExceptTime ==
  display.formatted =>
    /\ display.activeBlock = <<>> =>
         /\ display.timeDisplay = TimePlaceholder
         /\ display.burnRateDisplay = BurnRatePlaceholder
         /\ display.usedDisplay = UsedPlaceholder
         /\ display.projectedDisplay = ProjectedPlaceholder
    /\ display.burnRate = <<>> => display.burnRateDisplay = BurnRatePlaceholder
    /\ display.projection = <<>> =>
         display.projectedDisplay = ProjectedPlaceholder
    /\ display.activeContextSession = <<>> =>
         display.contextDisplay = ContextPlaceholder
    /\ (display.activeBlock # <<>> /\ display.projection = <<>>) =>
         TimeShownAsUsedUp(display.timeDisplay)

\* An active block of a single record has been formatted.
C24_Witness ==
  /\ display.formatted
  /\ display.activeBlock # <<>>
  /\ Len(display.activeBlock[1].entries) = 1
  /\ display.projection = <<>>
  /\ TimeShownAsUsedUp(display.timeDisplay)
\* ---- C26 ----------------------------------------------------------------

\* No record of the call lies after the instant the call sampled.
NoRecordAfterNow ==
  \A i \in 1..Len(sortedEntries) : sortedEntries[i].timestamp <= now

\* Block j is followed by a session block.
FollowedBySessionBlock(j) ==
  \E k \in SessionBlocks : k > j

\* C26: when every record's timestamp is <= now, every returned block that
\* is followed by another session block has isActive = false; only the
\* last block can be active.
C26_OnlyLastBlockCanBeActive ==
  (Returned /\ NoRecordAfterNow) =>
    \A j \in 1..Len(blocks) : FollowedBySessionBlock(j) => ~blocks[j].isActive

\* Two session blocks, the earlier one touched within one window duration
\* of now but past its end, the last one active.
C26_Witness ==
  /\ Returned
  /\ NoRecordAfterNow
  /\ Cardinality(SessionBlocks) >= 2
  /\ blocks[Len(blocks)].isActive
  /\ \E j \in SessionBlocks :
       /\ FollowedBySessionBlock(j)
       /\ now - blocks[j].actualEndTime < WindowDuration

\* With a record after now an earlier block can be active.
EarlierBlockActive ==
  /\ Returned
  /\ \E j \in 1..Len(blocks) : FollowedBySessionBlock(j) /\ blocks[j].isActive

\* ---- C27 ----------------------------------------------------------------

\* The walk is at a record that follows the open block's last record.
AtRecordOfOpenBlock ==
  /\ pc = "loop"
  /\ idx <= Len(sortedEntries)
  /\ currentBlockStart # Undefined
  /\ currentBlockEntries # <<>>

\* const timeSinceBlockStart, const timeSinceLastEntry of the loop body.
TimeSinceBlockStart == sortedEntries[idx].timestamp - currentBlockStart
TimeSinceLastEntry ==
  sortedEntries[idx].timestamp
    - currentBlockEntries[Len(currentBlockEntries)].timestamp

\* C27: at every step of the walk, timeSinceLastEntry > windowDuration
\* implies timeSinceBlockStart > windowDuration, so the open block is closed
\* exactly when the record is more than windowDuration after the floored
\* block start.
C27_LastEntryTriggerSubsumed ==
  /\ [](AtRecordOfOpenBlock =>
          /\ TimeSinceLastEntry > WindowDuration
               => TimeSinceBlockStart > WindowDuration
          /\ MustClose(TimeSinceBlockStart, TimeSinceLastEntry)
               <=> TimeSinceBlockStart > WindowDuration)
  /\ [][AtRecordOfOpenBlock =>
          (Len(blocks') > Len(blocks) <=> TimeSinceBlockStart > WindowDuration)]_vars

\* A record more than the window after the block start but within the
\* window of the block's last record: only the block-start trigger fires.
C27_Witness ==
  /\ AtRecordOfOpenBlock
  /\ TimeSinceBlockStart > WindowDuration
  /\ TimeSinceLastEntry <= WindowDuration
  /\ TimeSinceLastEntry > 0

\* ---- C28 ----------------------------------------------------------------

\* Session blocks a and b with no session block between them.
ConsecutiveSessionBlocks(a, b) ==
  /\ a \in SessionBlocks /\ b \in SessionBlocks /\ a < b
  /\ \A k \in SessionBlocks : ~(a < k /\ k < b)

\* C28: with a window of a whole number of hours the session blocks of a
\* call have strictly increasing startTimes, each startTime at or after the
\* previous session block's endTime, and pairwise distinct ids.
C28_SessionBlocksOrderedAndDistinct ==
  Returned =>
    /\ \A a, b \in SessionBlocks :
         ConsecutiveSessionBlocks(a, b) =>
           /\ blocks[a].startTime < blocks[b].startTime
           /\ blocks[b].startTime >= blocks[a].endTime
    /\ \A a, b \in SessionBlocks : a # b => blocks[a].id # blocks[b].id

\* Three session blocks, one starting exactly where the one before ends.
C28_Witness ==
  /\ Returned
  /\ Cardinality(SessionBlocks) >= 3
  /\ \E a, b \in SessionBlocks :
       /\ ConsecutiveSessionBlocks(a, b)
       /\ blocks[b].startTime = blocks[a].endTime
\* ---- C29 ----------------------------------------------------------------

\* The LoadedUsageEntry of types.ts for the usage line of a record of
\* data-loader-simple.ts: the token counts are nested under `usage`.
UsageShaped(entry) ==
  [id |-> entry.id,
   timestamp |-> entry.timestamp,
   usage |-> [inputTokens |-> entry.inputTokens,
              outputTokens |-> entry.outputTokens,
              cacheCreationInputTokens |-> entry.cacheCreationTokens,
              cacheReadInputTokens |-> entry.cacheReadTokens],
   costUSD |-> entry.costUSD,
   model |-> entry.model]

UsageShapedAll(es) == [k \in 1..Len(es) |-> UsageShaped(es[k])]

\* entry.usage is defined.
HasUsage(entry) == "usage" \in DOMAIN entry

\* The aggregation loop of createBlock in session-blocks-simple.ts;
\* reading entry.usage.inputTokens of a record without `usage` throws a
\* TypeError.
RECURSIVE AggregateSimple(_)
AggregateSimple(es) ==
  IF es = <<>>
    THEN [threw |-> FALSE,
          tokenCounts |-> [inputTokens |-> 0, outputTokens |-> 0,
                           cacheCreationInputTokens |-> 0,
                           cacheReadInputTokens |-> 0],
          costUSD |-> 0, models |-> <<>>]
    ELSE LET acc == AggregateSimple(SubSeq(es, 1, Len(es) - 1))
             entry == es[Len(es)]
         IN IF acc.threw \/ ~HasUsage(entry) THEN [acc EXCEPT !.threw = TRUE]
            ELSE [threw |-> FALSE,
                  tokenCounts |->
                    [inputTokens |->
                       acc.tokenCounts.inputTokens + entry.usage.inputTokens,
                     outputTokens |->
                       acc.tokenCounts.outputTokens + entry.usage.outputTokens,
                     cacheCreationInputTokens |->
                       acc.tokenCounts.cacheCreationInputTokens
                         + entry.usage.cacheCreationInputTokens,
                     cacheReadInputTokens |->
                       acc.tokenCounts.cacheReadInputTokens
                         + entry.usage.cacheReadInputTokens],
                  costUSD |-> acc.costUSD + NullishZero(entry.costUSD),
                  models |-> Append(acc.models, entry.model)]

\* createBlock of session-blocks-simple.ts.
createBlockSimple(startTime, es, nowT, durationMs) ==
  LET endTime == startTime + durationMs
      actualEndTime == IF es # <<>> THEN es[Len(es)].timestamp ELSE startTime
      agg == AggregateSimple(es)
  IN [threw |-> agg.threw,
      id |-> BlockId("", startTime),
      startTime |-> startTime,
      endTime |-> endTime,
      actualEndTime |-> actualEndTime,
      isActive |-> nowT - actualEndTime < durationMs /\ nowT < endTime,
      entries |-> es,
      tokenCounts |-> agg.tokenCounts,
      costUSD |-> agg.costUSD,
      models |-> uniq(agg.models)]

\* The for loop of identifySessionBlocks in session-blocks-simple.ts from
\* record i on, and the closing of the last block.
RECURSIVE WalkSimple(_, _, _, _, _, _, _)
WalkSimple(sorted, i, blockStart, blockEntries, bs, nowT, durationMs) ==
  IF i > Len(sorted)
    THEN IF blockStart # Undefined /\ Len(blockEntries) > 0
           THEN Append(bs, createBlockSimple(blockStart, blockEntries, nowT,
                                             durationMs))
           ELSE bs
  ELSE LET entry == sorted[i]
           entryTime == entry.timestamp
       IN IF blockStart = Undefined
            THEN WalkSimple(sorted, i + 1, floorToHour(entryTime), <<entry>>,
                            bs, nowT, durationMs)
          ELSE LET timeSinceBlockStart == entryTime - blockStart
                   lastEntryTime == blockEntries[Len(blockEntries)].timestamp
                   timeSinceLastEntry == entryTime - lastEntryTime
               IN IF timeSinceBlockStart > durationMs
                       \/ timeSinceLastEntry > durationMs
                    THEN WalkSimple(sorted, i + 1, floorToHour(entryTime),
                                    <<entry>>,
                                    Append(bs, createBlockSimple(blockStart,
                                             blockEntries, nowT, durationMs)),
                                    nowT, durationMs)
                    ELSE WalkSimple(sorted, i + 1, blockStart,
                                    Append(blockEntries, entry), bs, nowT,
                                    durationMs)

\* What a call of an engine copy gives: the blocks, or the TypeError thrown
\* by the first createBlock that met a record without `usage`.
Outcome(bs) ==
  IF \E j \in 1..Len(bs) : bs[j].threw
    THEN [threw |-> TRUE, blocks |-> <<>>]
    ELSE [threw |-> FALSE, blocks |-> bs]

\* identifySessionBlocks of session-blocks-simple.ts (no gap blocks).
identifySessionBlocksSimple(es, hours, nowT) ==
  IF Len(es) = 0 THEN Outcome(<<>>)
  ELSE Outcome(WalkSimple(SortByTimestamp(es), 1, Undefined, <<>>, <<>>, nowT,
                          hours * HourMs))

\* IsolatedContextCalculator.createBlock: the same aggregation over
\* entry.usage, the result frozen.
RECURSIVE AggregateIsolated(_)
AggregateIsolated(es) ==
  IF es = <<>>
    THEN [threw |-> FALSE,
          tokenCounts |-> [inputTokens |-> 0, outputTokens |-> 0,
                           cacheCreationInputTokens |-> 0,
                           cacheReadInputTokens |-> 0],
          costUSD |-> 0, models |-> <<>>]
    ELSE LET acc == AggregateIsolated(SubSeq(es, 1, Len(es) - 1))
             entry == es[Len(es)]
         IN IF acc.threw \/ ~HasUsage(entry) THEN [acc EXCEPT !.threw = TRUE]
            ELSE [threw |-> FALSE,
                  tokenCounts |->
                    [inputTokens |->
                       acc.tokenCounts.inputTokens + entry.usage.inputTokens,
                     outputTokens |->
                       acc.tokenCounts.outputTokens + entry.usage.outputTokens,
                     cacheCreationInputTokens |->
                       acc.tokenCounts.cacheCreationInputTokens
                         + entry.usage.cacheCreationInputTokens,
                     cacheReadInputTokens |->
                       acc.tokenCounts.cacheReadInputTokens
                         + entry.usage.cacheReadInputTokens],
                  costUSD |-> acc.costUSD + NullishZero(entry.costUSD),
                  models |-> Append(acc.models, entry.model)]

IsolatedCreateBlock(startTime, es, nowT, durationMs) ==
  LET endTime == startTime + durationMs
      actualEndTime == IF es # <<>> THEN es[Len(es)].timestamp ELSE startTime
      agg == AggregateIsolated(es)
  IN [threw |-> agg.threw,
      id |-> BlockId("", startTime),
      startTime |-> startTime,
      endTime |-> endTime,
      actualEndTime |-> actualEndTime,
      isActive |-> nowT - actualEndTime < durationMs /\ nowT < endTime,
      entries |-> es,
      tokenCounts |-> agg.tokenCounts,
      costUSD |-> agg.costUSD,
      models |-> uniq(agg.models)]

\* The for loop of IsolatedContextCalculator.identifySessionBlocks.
RECURSIVE IsolatedWalk(_, _, _, _, _, _, _)
IsolatedWalk(sorted, i, blockStart, blockEntries, bs, nowT, durationMs) ==
  IF i > Len(sorted)
    THEN IF blockStart # Undefined /\ Len(blockEntries) > 0
           THEN Append(bs, IsolatedCreateBlock(blockStart, blockEntries, nowT,
                                               durationMs))
           ELSE bs
  ELSE LET entry == sorted[i]
           entryTime == entry.timestamp
       IN IF blockStart = Undefined
            THEN IsolatedWalk(sorted, i + 1, floorToHour(entryTime), <<entry>>,
                              bs, nowT, durationMs)
          ELSE LET timeSinceBlockStart == entryTime - blockStart
                   lastEntryTime == blockEntries[Len(blockEntries)].timestamp
                   timeSinceLastEntry == entryTime - lastEntryTime
               IN IF timeSinceBlockStart > durationMs
                       \/ timeSinceLastEntry > durationMs
                    THEN IsolatedWalk(sorted, i + 1, floorToHour(entryTime),
                                      <<entry>>,
                                      Append(bs, IsolatedCreateBlock(blockStart,
                                               blockEntries, nowT, durationMs)),
                                      nowT, durationMs)
                    ELSE IsolatedWalk(sorted, i + 1, blockStart,
                                      Append(blockEntries, entry), bs, nowT,
                                      durationMs)

IsolatedIdentifySessionBlocks(es, hours, nowT) ==
  IF Len(es) = 0 THEN Outcome(<<>>)
  ELSE Outcome(IsolatedWalk(SortByTimestamp(es), 1, Undefined, <<>>, <<>>,
                            nowT, hours * HourMs))

\* The other two copies are called at the same `now`: on the array the
\* gap-emitting engine was given, and on the same usage lines in the record
\* shape of types.ts.
CallCopies ==
  /\ pc = "returned"
  /\ copies = NoCopies
  /\ copies' =
       [called |-> TRUE,
        simple |-> identifySessionBlocksSimple(entries, sessionDurationHours, now),
        isolated |->
          IsolatedIdentifySessionBlocks(entries, sessionDurationHours, now),
        simpleUsageShaped |->
          identifySessionBlocksSimple(UsageShapedAll(entries),
                                      sessionDurationHours, now),
        isolatedUsageShaped |->
          IsolatedIdentifySessionBlocks(UsageShapedAll(entries),
                                        sessionDurationHours, now)]
  /\ UNCHANGED <<projected, display>>
  /\ UNCHANGED engineVars
  /\ UNCHANGED <<ctxVars, loaderVars, loopVars>>

NextCopies ==
  \/ Next
  \/ CallCopies

SpecCopies == Init /\ [][NextCopies]_vars

\* The session blocks of the gap-emitting engine, in order.
RECURSIVE WithoutGaps(_)
WithoutGaps(bs) ==
  IF bs = <<>> THEN <<>>
  ELSE IF bs[1].isGap THEN WithoutGaps(Tail(bs))
       ELSE <<bs[1]>> \o WithoutGaps(Tail(bs))

EntryIds(es) == [k \in 1..Len(es) |-> es[k].id]

\* Blocks a and b agree on everything but the entries.
SameWindow(a, b) ==
  /\ a.startTime = b.startTime
  /\ a.endTime = b.endTime
  /\ a.actualEndTime = b.actualEndTime
  /\ a.isActive = b.isActive
  /\ a.tokenCounts = b.tokenCounts

\* The outcome is the blocks bs, with the very same records as entries.
AgreesWith(outcome, bs) ==
  /\ ~outcome.threw
  /\ Len(outcome.blocks) = Len(bs)
  /\ \A j \in 1..Len(bs) :
       /\ SameWindow(outcome.blocks[j], bs[j])
       /\ outcome.blocks[j].entries = bs[j].entries

\* The outcome is the blocks bs, built from the same usage lines.
AgreesOnUsageLines(outcome, bs) ==
  /\ ~outcome.threw
  /\ Len(outcome.blocks) = Len(bs)
  /\ \A j \in 1..Len(bs) :
       /\ SameWindow(outcome.blocks[j], bs[j])
       /\ EntryIds(outcome.blocks[j].entries) = EntryIds(bs[j].entries)

\* C29: for every input record sequence and the same now, the gap-free
\* identifySessionBlocks and IsolatedContextCalculator.identifySessionBlocks
\* return the session blocks of the gap-emitting identifySessionBlocks:
\* the same startTime, endTime, actualEndTime, isActive, entries and
\* tokenCounts, in the same order.
C29_EngineCopiesAgree ==
  (Returned /\ copies.called) =>
    /\ AgreesWith(copies.simple, WithoutGaps(blocks))
    /\ AgreesWith(copies.isolated, WithoutGaps(blocks))

\* What holds: the copies agree when each is given the usage lines in the
\* record shape it reads.
C29_CopiesAgreeOnOwnRecordShape ==
  (Returned /\ copies.called) =>
    /\ AgreesOnUsageLines(copies.simpleUsageShaped, WithoutGaps(blocks))
    /\ AgreesOnUsageLines(copies.isolatedUsageShaped, WithoutGaps(blocks))

\* On records of data-loader-simple.ts the two other copies throw.
C29_Witness ==
  /\ Returned
  /\ copies.called
  /\ Len(blocks) > Len(WithoutGaps(blocks))
  /\ Len(WithoutGaps(blocks)) >= 2
  /\ copies.simple.threw
  /\ copies.isolated.threw
  /\ ~copies.simpleUsageShaped.threw
====
